---- MODULE Spec2Model ----
(***************************************************************************)
(* Multi-instrument limit order book: the per-instrument matching engine   *)
(* (OrderBook::match_order), the resting path (place_order_in_book), the   *)
(* command handlers (handle_order_create / cancel / modify, instrument     *)
(* create / delete) and the dispatcher loop (run_engine).                  *)
(***************************************************************************)
EXTENDS Integers, Sequences, FiniteSets, TLC

\* ---- bounds of the model -------------------------------------------------
MaxPrice == 2
MaxQty == 2
MaxOrderId == 3
MaxTxn == 3
MaxCmds == 4
\* The calls made on a book directly, and the hidden quantity of a Reserve order.
MaxMatchCalls == 3
MaxHidden == 1
MaxTime == 2
MaxListenerCmds == 3
MaxCacheCalls == 3
MaxCacheOrderId == 2
MaxTifCalls == 3
MaxTifOrderId == 2
\* The bits the model keeps of a u64 price.
WordBits == 4
\* The commands of a run over two instruments and the order ids they use.
MaxBooksCmds == 4
MaxBooksOrderId == 2
\* The commands the producer sends, the order ids it uses, and the capacity
\* of the command channel (mpsc::channel(1024), scaled down).
MaxSent == 3
MaxSentOrderId == 2
ChannelCapacity == 2

\* ---- value domains -------------------------------------------------------
Instruments == {"X"}
Sides == {"Buy", "Sell"}
OrderTypes == {"MARKET", "LIMIT"}
Prices == 0..MaxPrice
Quantities == 0..MaxQty
OrderIds == 1..MaxOrderId
TifOrderIds == 1..MaxTifOrderId
CacheOrderIds == 1..MaxCacheOrderId

\* Option<u64>::None for limit_price
None == -1

Opposite(side) == IF side = "Buy" THEN "Sell" ELSE "Buy"

\* ---- ordered maps (SkipMap / DashMap) ------------------------------------
EmptyMap == <<>>

MapInsert(m, k, v) == [x \in (DOMAIN m) \cup {k} |-> IF x = k THEN v ELSE m[x]]

MapRemove(m, k) == [x \in (DOMAIN m) \ {k} |-> m[x]]

MapRemoveAll(m, ks) == [x \in (DOMAIN m) \ ks |-> m[x]]

SetMin(S) == CHOOSE x \in S : \A y \in S : x <= y

SetMax(S) == CHOOSE x \in S : \A y \in S : x >= y

SeqToSet(s) == {s[i] : i \in DOMAIN s}

RECURSIVE SumQty(_)
SumQty(txns) == IF txns = <<>> THEN 0 ELSE Head(txns).quantity + SumQty(Tail(txns))

\* ---- PriceLevel ----------------------------------------------------------
\* A level is the FIFO queue of its resting orders; order_count is its length.
order_count(level) == Len(level)

visible_quantity(level) == SumQty(level)

\* The hidden quantity of the orders of a level.
RECURSIVE hidden_quantity(_)
hidden_quantity(level) ==
    IF level = <<>> THEN 0 ELSE Head(level).hidden + hidden_quantity(Tail(level))

total_quantity(level) == visible_quantity(level) + hidden_quantity(level)

\* TimeInForce: the policies whose expiry depends on the clock, and GTC.
Gtc == [kind |-> "Gtc", at |-> 0]

Gtd(expiry) == [kind |-> "Gtd", at |-> expiry]

Day == [kind |-> "Day", at |-> 0]

\* TimeInForce::is_expired(current_time, market_close): GTD at its expiry,
\* DAY at the market close when the book has one.
is_expired(time_in_force, current_time, market_close) ==
    CASE time_in_force.kind = "Gtd" -> current_time >= time_in_force.at
      [] time_in_force.kind = "Day" -> market_close # None /\ current_time >= market_close
      [] OTHER -> FALSE

\* OrderType::Standard: all of its quantity is visible.
Standard(id, quantity, time_in_force) ==
    [id |-> id, quantity |-> quantity, hidden |-> 0, time_in_force |-> time_in_force]

StandardOrder(id, quantity) == Standard(id, quantity, Gtc)

\* OrderType::Reserve with auto_replenish false: a visible and a hidden
\* quantity, the hidden one never promoted by a match.
ReserveOrder(id, visible, hidden) ==
    [id |-> id, quantity |-> visible, hidden |-> hidden, time_in_force |-> Gtc]

add_order(level, order) == Append(level, order)

\* The level's answer to a match: what is left of the queue and of the
\* incoming quantity, the transactions made and the makers filled.
LevelMatch(orders, acc, remaining) ==
    [orders |-> acc.kept \o orders,
     transactions |-> acc.transactions,
     filled_order_ids |-> acc.filled_order_ids,
     remaining_quantity |-> remaining,
     gen |-> acc.gen]

\* The quantity the head order gives to the incoming order.
consumed_from(head, incoming_qty) ==
    IF head.quantity <= incoming_qty THEN head.quantity ELSE incoming_qty

\* The accumulated result after the head gave `consumed`: a transaction when
\* something traded, the head among the filled when nothing of it remains,
\* among the orders that stay in the queue when only hidden quantity remains.
fill_head(acc, head, price, consumed, taker_id) ==
    [transactions |->
         IF consumed > 0
         THEN Append(acc.transactions,
                     [transaction_id |-> acc.gen + 1, price |-> price, quantity |-> consumed,
                      maker_order_id |-> head.id, taker_order_id |-> taker_id])
         ELSE acc.transactions,
     filled_order_ids |->
         IF head.quantity = consumed /\ head.hidden = 0
         THEN Append(acc.filled_order_ids, head.id)
         ELSE acc.filled_order_ids,
     kept |->
         IF head.quantity = consumed /\ head.hidden > 0
         THEN Append(acc.kept, [head EXCEPT !.quantity = 0])
         ELSE acc.kept,
     gen |-> IF consumed > 0 THEN acc.gen + 1 ELSE acc.gen]

\* PriceLevel::match_order: consume resting orders head-first until the
\* incoming quantity is exhausted or the queue empties; a partial fill
\* reduces the head in place.
RECURSIVE PriceLevelMatch(_, _, _, _, _)
match_head(level, price, incoming_qty, taker_id, acc, consumed) ==
    IF Head(level).quantity = consumed
    THEN PriceLevelMatch(Tail(level), price, incoming_qty - consumed, taker_id,
                         fill_head(acc, Head(level), price, consumed, taker_id))
    ELSE LevelMatch(<<[Head(level) EXCEPT !.quantity = @ - consumed]>> \o Tail(level),
                    fill_head(acc, Head(level), price, consumed, taker_id), 0)

PriceLevelMatch(level, price, incoming_qty, taker_id, acc) ==
    IF incoming_qty = 0 \/ level = <<>>
    THEN LevelMatch(level, acc, incoming_qty)
    ELSE match_head(level, price, incoming_qty, taker_id, acc,
                    consumed_from(Head(level), incoming_qty))

PriceLevel_match_order(level, price, incoming_qty, taker_id, gen) ==
    PriceLevelMatch(level, price, incoming_qty, taker_id,
                    [transactions |-> <<>>, filled_order_ids |-> <<>>, kept |-> <<>>,
                     gen |-> gen])

\* PriceLevel::cancel_order: scan the queue, remove the order with this id.
PriceLevel_cancel_order(level, id) == SelectSeq(level, LAMBDA o : o.id # id)

\* ---- OrderBook -----------------------------------------------------------
EmptyBook == [bids |-> EmptyMap, asks |-> EmptyMap, order_locations |-> EmptyMap,
              last_trade_price |-> 0, has_traded |-> FALSE,
              transaction_id_generator |-> 0,
              has_market_close |-> FALSE, market_close_timestamp |-> 0,
              trade_listener |-> TRUE, price_level_changed_listener |-> TRUE]

\* The calls a listener receives: none when the Option holds no listener.
heard(listener, calls) == IF listener THEN calls ELSE <<>>

best_bid(book) == IF DOMAIN book.bids = {} THEN None ELSE SetMax(DOMAIN book.bids)

best_ask(book) == IF DOMAIN book.asks = {} THEN None ELSE SetMin(DOMAIN book.asks)

\* The best-price cache: a lazy memo of the two best prices behind a flag.
EmptyCache == [valid |-> FALSE, best_bid |-> None, best_ask |-> None]

\* cache.invalidate(): the writer only flips the flag.
invalidate(c) == [c EXCEPT !.valid = FALSE]

\* The cache after best_bid() or best_ask(): a reader that misses recomputes
\* the best prices from the maps and fills the memo.
cached_best(c, book) ==
    IF c.valid THEN c
    ELSE [valid |-> TRUE, best_bid |-> best_bid(book), best_ask |-> best_ask(book)]

\* No match_order call is in flight.
Idle == [pc |-> "idle"]

\* What best_bid() and best_ask() return through the cache.
cached_best_bid(c, book) == cached_best(c, book).best_bid

cached_best_ask(c, book) == cached_best(c, book).best_ask


\* ---- OrderBook::match_order ----------------------------------------------
\* The opposite side's price map.
match_side(book, side) == IF side = "Buy" THEN book.asks ELSE book.bids

\* Mutant: the bids are iterated without rev().
price_iter_unreversed(side, keys) == SetMin(keys)

\* The next key of the price iterator: asks ascending for a Buy taker, bids
\* descending (iter().rev()) for a Sell taker.
price_iter_next(side, keys) == IF side = "Buy" THEN SetMin(keys) ELSE SetMax(keys)

\* Mutant: the limit is checked for a Buy taker only.
beyond_limit_buy_only(side, price, limit_price) ==
    /\ limit_price # None
    /\ side = "Buy" /\ price > limit_price

\* The price limit check that ends the traversal.
beyond_limit(side, price, limit_price) ==
    /\ limit_price # None
    /\ \/ side = "Buy" /\ price > limit_price
       \/ side = "Sell" /\ price < limit_price

Reverse(q) == [k \in 1..Len(q) |-> q[Len(q) + 1 - k]]

\* Mutant: the level is matched from its tail.
level_match_from_tail(level, price, remaining_quantity, order_id, gen) ==
    [PriceLevel_match_order(Reverse(level), price, remaining_quantity, order_id, gen)
        EXCEPT !.orders = Reverse(@)]

\* The match performed at one price level, with the quantity still open.
level_match(level, price, remaining_quantity, order_id, gen) ==
    PriceLevel_match_order(level, price, remaining_quantity, order_id, gen)

\* Mutant: any trade at a level is taken to complete the incoming order.
next_remaining_dropped(price_level_match) ==
    IF price_level_match.transactions = <<>> THEN price_level_match.remaining_quantity ELSE 0

\* The quantity carried to the next level.
next_remaining(price_level_match) == price_level_match.remaining_quantity

\* Mutant: an emptied level is never marked for removal.
level_never_marked(level) == FALSE

\* Whether the level just matched is marked for removal.
level_is_empty(level) == order_count(level) = 0

InsufficientLiquidity(order_id, side, quantity, limit_price) ==
    [ok |-> FALSE, err |-> "InsufficientLiquidity", order_id |-> order_id, side |-> side,
     quantity |-> quantity, limit_price |-> limit_price,
     requested |-> quantity, available |-> 0,
     transactions |-> <<>>, filled_order_ids |-> <<>>,
     remaining_quantity |-> quantity, is_complete |-> FALSE]

\* MatchResult::new(order_id, quantity) with the fields the caller sets.
MatchResult(order_id, side, quantity, limit_price, transactions, filled, remaining, complete) ==
    [ok |-> TRUE, err |-> "", order_id |-> order_id, side |-> side,
     quantity |-> quantity, limit_price |-> limit_price,
     requested |-> 0, available |-> 0,
     transactions |-> transactions, filled_order_ids |-> filled,
     remaining_quantity |-> remaining, is_complete |-> complete]

\* PriceLevelChangedEvent { side, price, quantity }.
PriceLevelChangedEvent(side, price, quantity) ==
    [side |-> side, price |-> price, quantity |-> quantity]

\* Mutant: the event of a traded level carries the taker's side.
level_changed_taker_side(st, price, plm) ==
    PriceLevelChangedEvent(st.side, price, visible_quantity(plm.orders))

\* The event match_order hands to the price-level listener for a traded level.
level_changed(st, price, plm) ==
    PriceLevelChangedEvent(Opposite(st.side), price, visible_quantity(plm.orders))

\* The traversal state when match_order enters its loop: the side map whose
\* levels are matched in place, the scratch vectors, the atomics, and the
\* events handed to the price-level listener so far.
loop_start(book, side, quantity) ==
    [side |-> side,
     price_level_changed_listener |-> book.price_level_changed_listener,
     events |-> <<>>,
     levels |-> match_side(book, side),
     remaining_quantity |-> quantity,
     transactions |-> <<>>,
     filled_orders |-> <<>>,
     empty_price_levels |-> {},
     last_trade_price |-> book.last_trade_price,
     has_traded |-> book.has_traded,
     gen |-> book.transaction_id_generator]

\* Mutant: the trade price is recorded whether or not the level traded.
after_level_always_records(st, price, plm) ==
    [side |-> st.side,
     price_level_changed_listener |-> st.price_level_changed_listener,
     events |-> IF plm.transactions # <<>>
                THEN st.events \o heard(st.price_level_changed_listener,
                                        <<level_changed(st, price, plm)>>)
                ELSE st.events,
     levels |-> [st.levels EXCEPT ![price] = plm.orders],
     remaining_quantity |-> next_remaining(plm),
     transactions |-> st.transactions \o plm.transactions,
     filled_orders |-> st.filled_orders \o plm.filled_order_ids,
     empty_price_levels |->
         IF level_is_empty(plm.orders) THEN st.empty_price_levels \cup {price}
         ELSE st.empty_price_levels,
     last_trade_price |-> price,
     has_traded |-> TRUE,
     gen |-> plm.gen]

\* Mutant: the trade price is recorded only when a price-level listener is
\* registered.
after_level_if_heard(st, price, plm) ==
    [side |-> st.side,
     price_level_changed_listener |-> st.price_level_changed_listener,
     events |-> IF plm.transactions # <<>>
                THEN st.events \o heard(st.price_level_changed_listener,
                                        <<level_changed(st, price, plm)>>)
                ELSE st.events,
     levels |-> [st.levels EXCEPT ![price] = plm.orders],
     remaining_quantity |-> next_remaining(plm),
     transactions |-> st.transactions \o plm.transactions,
     filled_orders |-> st.filled_orders \o plm.filled_order_ids,
     empty_price_levels |->
         IF level_is_empty(plm.orders) THEN st.empty_price_levels \cup {price}
         ELSE st.empty_price_levels,
     last_trade_price |->
         IF plm.transactions # <<>> /\ st.price_level_changed_listener
         THEN price ELSE st.last_trade_price,
     has_traded |-> plm.transactions # <<>> \/ st.has_traded,
     gen |-> plm.gen]

\* The loop body after the level's match: record the trade price, append the
\* transactions, collect the filled orders, update the remaining quantity and
\* mark the level when it is empty.
after_level(st, price, plm) ==
    [side |-> st.side,
     price_level_changed_listener |-> st.price_level_changed_listener,
     events |-> IF plm.transactions # <<>>
                THEN st.events \o heard(st.price_level_changed_listener,
                                        <<level_changed(st, price, plm)>>)
                ELSE st.events,
     levels |-> [st.levels EXCEPT ![price] = plm.orders],
     remaining_quantity |-> next_remaining(plm),
     transactions |-> st.transactions \o plm.transactions,
     filled_orders |-> st.filled_orders \o plm.filled_order_ids,
     empty_price_levels |->
         IF level_is_empty(plm.orders) THEN st.empty_price_levels \cup {price}
         ELSE st.empty_price_levels,
     last_trade_price |-> IF plm.transactions # <<>> THEN price ELSE st.last_trade_price,
     has_traded |-> plm.transactions # <<>> \/ st.has_traded,
     gen |-> plm.gen]

\* The loop over the price levels (for entry in price_iter); keys are the
\* entries not yet visited.
RECURSIVE MatchLoop(_, _, _, _, _)
\* Early exit when the order is fully matched, else the next entry.
next_entry(st, keys, price, order_id, side, limit_price) ==
    IF st.remaining_quantity = 0 THEN st
    ELSE MatchLoop(st, keys \ {price}, order_id, side, limit_price)

\* One entry: stop at the limit, else match the level.
visit_entry(st, keys, price, order_id, side, limit_price) ==
    IF beyond_limit(side, price, limit_price) THEN st
    ELSE next_entry(after_level(st, price,
                                level_match(st.levels[price], price, st.remaining_quantity,
                                            order_id, st.gen)),
                    keys, price, order_id, side, limit_price)

MatchLoop(st, keys, order_id, side, limit_price) ==
    IF keys = {} THEN st
    ELSE visit_entry(st, keys, price_iter_next(side, keys), order_id, side, limit_price)

\* Mutant: the filled orders are not erased from order_locations.
after_removals_keeps_locations(book, side, st) ==
    LET levels == MapRemoveAll(st.levels, st.empty_price_levels)
    IN [bids |-> IF side = "Buy" THEN book.bids ELSE levels,
        asks |-> IF side = "Buy" THEN levels ELSE book.asks,
        order_locations |-> book.order_locations,
        last_trade_price |-> st.last_trade_price,
        has_traded |-> st.has_traded,
        transaction_id_generator |-> st.gen,
        has_market_close |-> book.has_market_close,
        market_close_timestamp |-> book.market_close_timestamp,
        trade_listener |-> book.trade_listener,
        price_level_changed_listener |-> book.price_level_changed_listener]

\* The book after the batch removals that follow the traversal.
after_removals(book, side, st) ==
    LET levels == MapRemoveAll(st.levels, st.empty_price_levels)
        locs == MapRemoveAll(book.order_locations, SeqToSet(st.filled_orders))
    IN [bids |-> IF side = "Buy" THEN book.bids ELSE levels,
        asks |-> IF side = "Buy" THEN levels ELSE book.asks,
        order_locations |-> locs,
        last_trade_price |-> st.last_trade_price,
        has_traded |-> st.has_traded,
        transaction_id_generator |-> st.gen,
        has_market_close |-> book.has_market_close,
        market_close_timestamp |-> book.market_close_timestamp,
        trade_listener |-> book.trade_listener,
        price_level_changed_listener |-> book.price_level_changed_listener]

\* What match_order returns after the traversal and the removals.
match_return(book2, st, order_id, side, quantity, limit_price) ==
    IF limit_price = None /\ st.remaining_quantity = quantity
    THEN [book |-> book2, events |-> st.events,
          result |-> InsufficientLiquidity(order_id, side, quantity, limit_price)]
    ELSE [book |-> book2, events |-> st.events,
          result |-> MatchResult(order_id, side, quantity, limit_price,
                                 st.transactions, st.filled_orders,
                                 st.remaining_quantity, st.remaining_quantity = 0)]

\* The part of match_order that follows the loop.
after_loop(book, st, order_id, side, quantity, limit_price) ==
    match_return(after_removals(book, side, st), st, order_id, side, quantity, limit_price)

\* match_order(order_id, side, quantity, limit_price): the book after the call
\* and the Result<MatchResult, OrderBookError> it returns.
match_order(book, order_id, side, quantity, limit_price) ==
    IF DOMAIN match_side(book, side) = {}
    THEN IF limit_price = None
         THEN [book |-> book, events |-> <<>>,
               result |-> InsufficientLiquidity(order_id, side, quantity, limit_price)]
         ELSE [book |-> book, events |-> <<>>,
               result |-> MatchResult(order_id, side, quantity, limit_price,
                                      <<>>, <<>>, quantity, FALSE)]
    ELSE after_loop(book,
                    MatchLoop(loop_start(book, side, quantity),
                              DOMAIN match_side(book, side), order_id, side, limit_price),
                    order_id, side, quantity, limit_price)

\* TradeResult::new(symbol, match_result); the symbol is the book's own, which
\* the book of the model does not carry.
TradeResult(match_result) == [match_result |-> match_result]

\* Mutant: the trade listener is called after every match_order call.
trade_listener_always(result) == <<TradeResult(result)>>

\* The calls of the trade listener after match_order returned result.
trade_listener(result) ==
    IF result.ok /\ result.transactions # <<>> THEN <<TradeResult(result)>> ELSE <<>>

\* What a wrapper of match_order returns, with the trade listener's calls.
with_trades(m) ==
    [book |-> m.book, result |-> m.result, events |-> m.events,
     trades |-> heard(m.book.trade_listener, trade_listener(m.result))]

\* operations.rs: wrappers over match_order that notify the trade listener.
submit_market_order(book, id, quantity, side) ==
    with_trades(match_order(book, id, side, quantity, None))

match_limit_order(book, id, quantity, side, price) ==
    with_trades(match_order(book, id, side, quantity, price))

\* ---- OrderBook::peek_match ---------------------------------------------
\* Mutant: a level gives all it has, whatever is still needed.
peek_take_available(needed_quantity, available_quantity) == available_quantity

\* needed_quantity.min(available_quantity)
peek_take(needed_quantity, available_quantity) ==
    IF needed_quantity <= available_quantity THEN needed_quantity ELSE available_quantity

\* The loop of peek_match over the price levels; keys are the entries not
\* yet visited, matched_quantity what the levels visited account for.
RECURSIVE PeekLoop(_, _, _, _, _, _)
\* One entry: stop at the limit, else add what the level can give.
peek_entry(price_levels, keys, price, side, quantity, price_limit, matched_quantity) ==
    IF beyond_limit(side, price, price_limit) THEN matched_quantity
    ELSE PeekLoop(price_levels, keys \ {price}, side, quantity, price_limit,
                  matched_quantity
                      + peek_take(IF quantity >= matched_quantity
                                  THEN quantity - matched_quantity ELSE 0,
                                  total_quantity(price_levels[price])))

PeekLoop(price_levels, keys, side, quantity, price_limit, matched_quantity) ==
    IF keys = {} \/ matched_quantity >= quantity THEN matched_quantity
    ELSE peek_entry(price_levels, keys, price_iter_next(side, keys), side, quantity,
                    price_limit, matched_quantity)

\* peek_match(side, quantity, price_limit): the quantity it returns.
peek_match(book, side, quantity, price_limit) ==
    IF DOMAIN match_side(book, side) = {} THEN 0
    ELSE PeekLoop(match_side(book, side), DOMAIN match_side(book, side), side, quantity,
                  price_limit, 0)

\* ---- OrderBook: resting path ---------------------------------------------
\* Mutant: a price equal to the best opposite price does not cross.
will_cross_market_strict(book, price, side) ==
    IF side = "Buy"
    THEN best_ask(book) # None /\ price > best_ask(book)
    ELSE best_bid(book) # None /\ price < best_bid(book)

will_cross_market(book, price, side) ==
    IF side = "Buy"
    THEN best_ask(book) # None /\ price >= best_ask(book)
    ELSE best_bid(book) # None /\ price <= best_bid(book)

\* The payload of OrderBookError::PriceCrossing, and its value when no such
\* error was returned.
PriceCrossing(price, side, opposite_price) ==
    [price |-> price, side |-> side, opposite_price |-> opposite_price]

NoCrossing == PriceCrossing(0, "Buy", 0)

\* The level the order goes to: get_or_insert(price, PriceLevel::new(price)).
get_or_insert(book_side, price) == IF price \in DOMAIN book_side THEN book_side[price] ELSE <<>>

\* The book with the price map of one side replaced.
with_side(book, side, book_side) ==
    [book EXCEPT !.bids = IF side = "Buy" THEN book_side ELSE @,
                 !.asks = IF side = "Buy" THEN @ ELSE book_side]

book_side_of(book, side) == IF side = "Buy" THEN book.bids ELSE book.asks

\* place_order_in_book(order): append to the level of (side, price), record
\* the location.
place_order(book, order, price, side) ==
    [with_side(book, side,
               MapInsert(book_side_of(book, side), price,
                         add_order(get_or_insert(book_side_of(book, side), price), order)))
        EXCEPT !.order_locations = MapInsert(@, order.id, <<price, side>>)]

\* The same for a Standard order.
place_order_in_book(book, order_id, price, quantity, side) ==
    place_order(book, StandardOrder(order_id, quantity), price, side)

\* The event place_order_in_book hands to the price-level listener after
\* add_order: the level's visible quantity with the new order.
place_event(book, order, price, side) ==
    PriceLevelChangedEvent(side, price,
                           visible_quantity(add_order(get_or_insert(book_side_of(book, side), price),
                                                      order)))

\* The same for a Standard order.
place_order_event(book, order_id, price, quantity, side) ==
    place_event(book, StandardOrder(order_id, quantity), price, side)

\* What a book operation returns when it fails: the book as it was, no event.
Rejected(book, err) == [book |-> book, err |-> err, events |-> <<>>]

\* The resting path taken: the book with the order and the listener's event.
Placed(book, id, price, quantity, side) ==
    [book |-> place_order_in_book(book, id, price, quantity, side), err |-> "ok",
     events |-> heard(book.price_level_changed_listener,
                      <<place_order_event(book, id, price, quantity, side)>>)]

\* Mutant: add_limit_order without the price check.
add_limit_order_accepts_zero_price(book, id, price, quantity, side) ==
    IF id \in DOMAIN book.order_locations THEN Rejected(book, "DuplicateOrderId")
    ELSE Placed(book, id, price, quantity, side)

\* Mutant: add_limit_order without the duplicate-id check.
add_limit_order_no_duplicate_check(book, id, price, quantity, side) ==
    IF price = 0 THEN Rejected(book, "InvalidPriceLevel")
    ELSE Placed(book, id, price, quantity, side)

\* add_limit_order (modifications.rs): the entry checks, then the resting path.
add_limit_order(book, id, price, quantity, side) ==
    IF price = 0 THEN Rejected(book, "InvalidPriceLevel")
    ELSE IF id \in DOMAIN book.order_locations THEN Rejected(book, "DuplicateOrderId")
    ELSE Placed(book, id, price, quantity, side)

\* OrderBook::set_market_close (book.rs): the two atomics has_expired reads.
set_market_close(book, timestamp) ==
    [book EXCEPT !.has_market_close = TRUE, !.market_close_timestamp = timestamp]

\* The market close has_expired hands to is_expired: only when one is set.
market_close_of(book) ==
    IF book.has_market_close THEN book.market_close_timestamp ELSE None

\* has_expired: the order's time in force against the clock and the close.
has_expired(book, order, current_time) ==
    is_expired(order.time_in_force, current_time, market_close_of(book))

\* add_limit_order (modifications.rs) with its time-in-force argument: the
\* entry checks, the rejection of an order already expired, the resting path.
add_limit_order_tif(book, id, price, quantity, side, time_in_force, current_time) ==
    IF price = 0 THEN Rejected(book, "InvalidPriceLevel")
    ELSE IF id \in DOMAIN book.order_locations THEN Rejected(book, "DuplicateOrderId")
    ELSE IF has_expired(book, Standard(id, quantity, time_in_force), current_time)
    THEN Rejected(book, "Expired")
    ELSE [book |-> place_order(book, Standard(id, quantity, time_in_force), price, side),
          err |-> "ok",
          events |-> heard(book.price_level_changed_listener,
                           <<place_event(book, Standard(id, quantity, time_in_force),
                                         price, side)>>)]

\* add_reserve_order (modifications.rs) with auto_replenish false: the entry
\* checks of add_limit_order, then the resting path.
add_reserve_order(book, id, price, visible, hidden, side) ==
    IF price = 0 THEN Rejected(book, "InvalidPriceLevel")
    ELSE IF id \in DOMAIN book.order_locations THEN Rejected(book, "DuplicateOrderId")
    ELSE [book |-> place_order(book, ReserveOrder(id, visible, hidden), price, side),
          err |-> "ok",
          events |-> heard(book.price_level_changed_listener,
                           <<place_event(book, ReserveOrder(id, visible, hidden),
                                         price, side)>>)]

\* add_post_only_order (modifications.rs): the entry checks of
\* add_limit_order, then the rejection of a price that would cross, then the
\* resting path; no match is attempted.
add_post_only_order(book, id, price, quantity, side) ==
    IF price = 0
    THEN [book |-> book, err |-> "InvalidPriceLevel", events |-> <<>>, crossing |-> NoCrossing]
    ELSE IF id \in DOMAIN book.order_locations
    THEN [book |-> book, err |-> "DuplicateOrderId", events |-> <<>>, crossing |-> NoCrossing]
    ELSE IF will_cross_market(book, price, side)
    THEN [book |-> book, err |-> "PriceCrossing", events |-> <<>>,
          crossing |-> PriceCrossing(price, side,
                                     IF side = "Buy" THEN best_ask(book) ELSE best_bid(book))]
    ELSE [book |-> place_order_in_book(book, id, price, quantity, side), err |-> "ok",
          events |-> heard(book.price_level_changed_listener,
                           <<place_order_event(book, id, price, quantity, side)>>),
          crossing |-> NoCrossing]

\* Mutant: a level that has become empty stays in the side map.
put_or_drop_keeps_empty(book_side, price, level) == MapInsert(book_side, price, level)

\* The side map with a level replaced, or dropped when it has become empty.
put_or_drop(book_side, price, level) ==
    IF order_count(level) = 0 THEN MapRemove(book_side, price)
    ELSE MapInsert(book_side, price, level)

\* The book with order id taken out of the level (price, side) and out of
\* order_locations.
remove_at(book, id, price, side) ==
    [with_side(book, side,
               put_or_drop(book_side_of(book, side), price,
                           PriceLevel_cancel_order(book_side_of(book, side)[price], id)))
        EXCEPT !.order_locations = MapRemove(@, id)]

remove_from_level(book, id) ==
    remove_at(book, id, book.order_locations[id][1], book.order_locations[id][2])

\* The event the price-level listener gets after order id left its level:
\* the visible quantity the level is left with.
cancel_event(book, id) ==
    <<PriceLevelChangedEvent(book.order_locations[id][2], book.order_locations[id][1],
                             visible_quantity(
                                 PriceLevel_cancel_order(
                                     book_side_of(book, book.order_locations[id][2])
                                         [book.order_locations[id][1]], id)))>>

\* The order taken out of the book, with the listener's event.
Removed(book, id) ==
    [book |-> remove_from_level(book, id), err |-> "ok",
     events |-> heard(book.price_level_changed_listener, cancel_event(book, id))]

\* Mutant: cancelling an id that is not live succeeds.
cancel_order_unknown_ok(book, id) ==
    IF id \notin DOMAIN book.order_locations THEN [book |-> book, err |-> "ok", events |-> <<>>]
    ELSE Removed(book, id)

\* cancel_order (modifications.rs).
cancel_order(book, id) ==
    IF id \notin DOMAIN book.order_locations THEN Rejected(book, "OrderNotFound")
    ELSE Removed(book, id)

\* The order cancelled and re-added on its side, with the events of the two.
Replaced(book, id, new_price, new_quantity, side) ==
    [book |-> place_order_in_book(remove_from_level(book, id), id, new_price, new_quantity, side),
     err |-> "ok",
     events |-> heard(book.price_level_changed_listener,
                      cancel_event(book, id)
                      \o <<place_order_event(remove_from_level(book, id), id, new_price,
                                             new_quantity, side)>>)]

\* The level with the quantity of order id replaced.
with_quantity(level, id, new_quantity) ==
    [k \in DOMAIN level |->
        IF level[k].id = id THEN [level[k] EXCEPT !.quantity = new_quantity] ELSE level[k]]

\* Mutant: an update that keeps the price changes the quantity in place.
update_order_in_place(book, id, new_price, new_quantity) ==
    IF id \notin DOMAIN book.order_locations THEN Rejected(book, "OrderNotFound")
    ELSE IF new_price = 0 THEN Rejected(book, "InvalidPriceLevel")
    ELSE IF new_price = book.order_locations[id][1]
    THEN [book |-> with_side(book, book.order_locations[id][2],
                             MapInsert(book_side_of(book, book.order_locations[id][2]), new_price,
                                       with_quantity(book_side_of(book, book.order_locations[id][2])[new_price],
                                                     id, new_quantity))),
          err |-> "ok",
          events |-> heard(book.price_level_changed_listener,
                           <<PriceLevelChangedEvent(
                               book.order_locations[id][2], new_price,
                               visible_quantity(
                                   with_quantity(book_side_of(book, book.order_locations[id][2])[new_price],
                                                 id, new_quantity)))>>)]
    ELSE Replaced(book, id, new_price, new_quantity, book.order_locations[id][2])

\* update_order(UpdatePriceAndQuantity) (modifications.rs): cancel, then re-add
\* under the same id and side at the new price with the new quantity.
update_order(book, id, new_price, new_quantity) ==
    IF id \notin DOMAIN book.order_locations THEN Rejected(book, "OrderNotFound")
    ELSE IF new_price = 0 THEN Rejected(book, "InvalidPriceLevel")
    ELSE Replaced(book, id, new_price, new_quantity, book.order_locations[id][2])

\* ---- BookManager ---------------------------------------------------------
get_book(manager, symbol) == symbol \in DOMAIN manager

add_book(manager, symbol) ==
    IF symbol \in DOMAIN manager THEN manager ELSE MapInsert(manager, symbol, EmptyBook)

remove_book(manager, symbol) == MapRemove(manager, symbol)

\* Mutant: the book handed back is stored under every symbol.
set_book_every(manager, symbol, book) == [j \in DOMAIN manager |-> book]

set_book(manager, symbol, book) == [manager EXCEPT ![symbol] = book]

\* ---- commands and their outcome ------------------------------------------
Cmd(type, instrument_id, order_id, quantity, price, side, order_type) ==
    [type |-> type, instrument_id |-> instrument_id, order_id |-> order_id,
     quantity |-> quantity, price |-> price, side |-> side, order_type |-> order_type]

NoCmd == Cmd("None", "", 0, 0, 0, "Buy", "LIMIT")

NotCalled ==
    [ok |-> FALSE, err |-> "NotCalled", order_id |-> 0, side |-> "Buy",
     quantity |-> 0, limit_price |-> None, requested |-> 0, available |-> 0,
     transactions |-> <<>>, filled_order_ids |-> <<>>,
     remaining_quantity |-> 0, is_complete |-> FALSE]

\* What the last command did: the match_order call it made (if any) and the
\* outcome of its add / cancel / update call ("none" when it made no such call).
Outcome(cmd, match, op) ==
    [cmd |-> cmd, match |-> match, op |-> op, crossing |-> NoCrossing,
     trades |-> <<>>, events |-> <<>>, peek |-> None]

\* The same with the calls the command made to the trade listener and the
\* events it handed to the price-level listener, in their order.
notified(o, trades, events) == [o EXCEPT !.trades = trades, !.events = events]

\* ---- command handlers ----------------------------------------------------
\* Mutant: InstrumentCreate installs a new book whether one exists or not.
handle_instrument_create_replaces(manager, token) == MapInsert(manager, token, EmptyBook)

handle_instrument_create(manager, token) ==
    IF get_book(manager, token) THEN manager ELSE add_book(manager, token)

\* Mutant: InstrumentDelete leaves the book in the manager.
handle_instrument_delete_keeps(manager, instrument_id) == manager

handle_instrument_delete(manager, instrument_id) ==
    IF ~get_book(manager, instrument_id) THEN manager ELSE remove_book(manager, instrument_id)

\* Mutant: a limit order at the best opposite price is not aggressive.
should_attempt_match_strict(book, price, side) ==
    IF side = "Buy"
    THEN IF best_ask(book) # None THEN price > best_ask(book) ELSE FALSE
    ELSE IF best_bid(book) # None THEN price < best_bid(book) ELSE FALSE

\* Whether a limit order is aggressive (crosses the book).
should_attempt_match(book, price, side) ==
    IF side = "Buy"
    THEN IF best_ask(book) # None THEN price >= best_ask(book) ELSE FALSE
    ELSE IF best_bid(book) # None THEN price <= best_bid(book) ELSE FALSE

\* What a branch of handle_order_create leaves: the book, the match_order
\* call it made and the outcome of its add_limit_order call.
Handled(book, match, op) ==
    [book |-> book, match |-> match, op |-> op, trades |-> <<>>, events |-> <<>>]

\* A branch that ends with add_limit_order, whose result is a.
added(match, a) == notified(Handled(a.book, match, a.err), <<>>, a.events)

\* The same after match_limit_order returned m.
added_after(m, a) ==
    notified(Handled(a.book, m.result, a.err), m.trades, m.events \o a.events)

\* A branch that ends with the match, m being what it returned.
matched(m) == notified(Handled(m.book, m.result, "none"), m.trades, m.events)

\* Mutant: the market branch rests what the match left over.
market_rests(m, order) ==
    IF m.result.ok /\ m.result.remaining_quantity > 0
    THEN Handled(place_order_in_book(m.book, order.order_id, m.book.last_trade_price,
                                     m.result.remaining_quantity, order.side),
                 m.result, "none")
    ELSE matched(m)

create_market_rests(book, order) ==
    market_rests(submit_market_order(book, order.order_id, order.quantity, order.side), order)

\* The market branch of handle_order_create, m the result of submit_market_order.
market_done(m, order) == matched(m)

create_market(book, order) ==
    market_done(submit_market_order(book, order.order_id, order.quantity, order.side), order)

\* The aggressive limit branch after match_limit_order returned m: rest the
\* remainder, or the whole order when the match failed.
limit_matched(m, order) ==
    IF m.result.ok
    THEN IF m.result.remaining_quantity > 0
         THEN added_after(m, add_limit_order(m.book, order.order_id, order.price,
                                             m.result.remaining_quantity, order.side))
         ELSE matched(m)
    ELSE added_after(m, add_limit_order(m.book, order.order_id, order.price,
                                        order.quantity, order.side))

\* The limit branch of handle_order_create.
create_limit(book, order) ==
    IF should_attempt_match(book, order.price, order.side)
    THEN limit_matched(match_limit_order(book, order.order_id, order.quantity,
                                         order.side, order.price), order)
    ELSE added(NotCalled,
               add_limit_order(book, order.order_id, order.price, order.quantity, order.side))

\* The manager with the handled book, and the outcome of the command.
Stored(manager, order, r) ==
    [manager |-> set_book(manager, order.instrument_id, r.book),
     outcome |-> notified(Outcome(order, r.match, r.op), r.trades, r.events)]

\* handle_order_create once the book exists.
create_in_book(manager, order) ==
    Stored(manager, order,
           IF order.order_type = "MARKET"
           THEN create_market(manager[order.instrument_id], order)
           ELSE create_limit(manager[order.instrument_id], order))

\* Mutant: an order for an instrument without a book is dropped.
handle_order_create_needs_book(manager, order) ==
    IF ~get_book(manager, order.instrument_id)
    THEN [manager |-> manager, outcome |-> Outcome(order, NotCalled, "NoBook")]
    ELSE create_in_book(manager, order)

handle_order_create(manager, order) ==
    create_in_book(IF ~get_book(manager, order.instrument_id)
                   THEN add_book(manager, order.instrument_id) ELSE manager,
                   order)

\* The outcome of a cancel or an update, c the result of the book operation.
Changed(manager, order, c) ==
    [manager |-> set_book(manager, order.instrument_id, c.book),
     outcome |-> notified(Outcome(order, NotCalled, c.err), <<>>, c.events)]

NoBook(manager, order) == [manager |-> manager, outcome |-> Outcome(order, NotCalled, "NoBook")]

handle_order_cancel(manager, order) ==
    IF ~get_book(manager, order.instrument_id) THEN NoBook(manager, order)
    ELSE Changed(manager, order, cancel_order(manager[order.instrument_id], order.order_id))

\* Mutant: OrderModify creates the book it does not find.
handle_order_modify_creates(manager, order) ==
    IF ~get_book(manager, order.instrument_id)
    THEN NoBook(add_book(manager, order.instrument_id), order)
    ELSE Changed(manager, order,
                 update_order(manager[order.instrument_id], order.order_id,
                              order.price, order.quantity))

handle_order_modify(manager, order) ==
    IF ~get_book(manager, order.instrument_id) THEN NoBook(manager, order)
    ELSE Changed(manager, order,
                 update_order(manager[order.instrument_id], order.order_id,
                              order.price, order.quantity))

\* ---- DistributionBin (statistics.rs) --------------------------------------
\* The prices are u64; the model keeps WordBits bits of them.
U64Max == 2^WordBits - 1

U64 == 0..U64Max

\* DistributionBin { min_price, max_price, .. }: the fields the methods read.
DistributionBin(min_price, max_price) == [min_price |-> min_price, max_price |-> max_price]

\* What a call did: it returned value, or it panicked.
Returned(fn, value) == [fn |-> fn, panicked |-> FALSE, value |-> value]

Panicked(fn) == [fn |-> fn, panicked |-> TRUE, value |-> 0]

NoCall == Returned("none", 0)

\* a + b on u64: the sum when it fits; when it does not, the build decides:
\* a panic with overflow checks, the wrapped sum without them.
u64_add(fn, a, b) ==
    IF a + b <= U64Max THEN {Returned(fn, a + b)}
    ELSE {Panicked(fn), Returned(fn, (a + b) % (U64Max + 1))}

\* (self.min_price + self.max_price) / 2, applied to the outcome of the sum.
halved(sum) == IF sum.panicked THEN sum ELSE Returned(sum.fn, sum.value \div 2)

\* DistributionBin::midpoint: the outcomes the builds can produce.
midpoint(self) == {halved(sum) : sum \in u64_add("midpoint", self.min_price, self.max_price)}

\* a.saturating_sub(b)
saturating_sub(a, b) == IF a >= b THEN a - b ELSE 0

\* DistributionBin::width
width(self) == Returned("width", saturating_sub(self.max_price, self.min_price))

\* ---- state ---------------------------------------------------------------
VARIABLES
    manager,    \* BookManagerStd: instrument id -> OrderBook
    last,       \* the outcome of the command the engine processed last
    ncmds,      \* the number of commands the engine has received
    chan,       \* the commands queued in the channel, oldest first
    tx_open,    \* the producer still holds the Sender
    engine,     \* the engine task: "running", "stopped" (recv returned None)
                \* or "cancelled" (dropped with the runtime)
    sent,       \* history: the commands the channel accepted, in order
    applied,    \* history: the commands the engine handled, in order
    bin,        \* a DistributionBin
    bin_out,    \* what the last call of a method of the bin did
    now,        \* current_time_millis()
    cache,      \* the best-price cache of book X
    call        \* the match_order call in flight on book X, its position

chanvars == <<chan, tx_open, engine, sent, applied>>

statvars == <<bin, bin_out>>

cachevars == <<cache, call>>

vars == <<manager, last, ncmds, chan, tx_open, engine, sent, applied, bin, bin_out, now,
          cache, call>>

Init ==
    /\ manager = EmptyMap
    /\ last = Outcome(NoCmd, NotCalled, "none")
    /\ ncmds = 0
    /\ chan = <<>>
    /\ tx_open = TRUE
    /\ engine = "running"
    /\ sent = <<>>
    /\ applied = <<>>
    /\ bin = DistributionBin(0, 0)
    /\ bin_out = NoCall
    /\ now = 0
    /\ cache = EmptyCache
    /\ call = Idle

\* Transaction ids stay within the modelled range.
WithinTxnBound(m) == \A i \in DOMAIN m : m[i].transaction_id_generator <= MaxTxn

\* ---- run_engine: one command received and handled per step ---------------
\* rx.recv() delivers the next command; the model stops after MaxCmds of them.
Recv ==
    /\ ncmds < MaxCmds
    /\ ncmds' = ncmds + 1
    /\ UNCHANGED chanvars
    /\ UNCHANGED <<statvars, now, cachevars>>

InstrumentCreate ==
    /\ Recv
    /\ \E i \in Instruments :
        /\ manager' = handle_instrument_create(manager, i)
        /\ last' = Outcome(Cmd("InstrumentCreate", i, 0, 0, 0, "Buy", "LIMIT"), NotCalled, "none")

InstrumentDelete ==
    /\ Recv
    /\ \E i \in Instruments :
        /\ manager' = handle_instrument_delete(manager, i)
        /\ last' = Outcome(Cmd("InstrumentDelete", i, 0, 0, 0, "Buy", "LIMIT"), NotCalled, "none")

\* The engine's state after a handler returned r.
Apply(r) ==
    /\ manager' = r.manager
    /\ last' = r.outcome

\* The same for a command that can trade, within the modelled transaction ids.
ApplyCreate(r) ==
    /\ WithinTxnBound(r.manager)
    /\ Apply(r)

OrderCreateLimit ==
    /\ Recv
    /\ \E i \in Instruments, id \in OrderIds, q \in Quantities, p \in Prices, s \in Sides :
           ApplyCreate(handle_order_create(manager, Cmd("OrderCreate", i, id, q, p, s, "LIMIT")))

OrderCreateMarket ==
    /\ Recv
    /\ \E i \in Instruments, id \in OrderIds, q \in Quantities, s \in Sides :
           ApplyCreate(handle_order_create(manager, Cmd("OrderCreate", i, id, q, 0, s, "MARKET")))

OrderDelete ==
    /\ Recv
    /\ \E i \in Instruments, id \in OrderIds :
           Apply(handle_order_cancel(manager, Cmd("OrderDelete", i, id, 0, 0, "Buy", "LIMIT")))

OrderModify ==
    /\ Recv
    /\ \E i \in Instruments, id \in OrderIds, q \in Quantities, p \in Prices :
           Apply(handle_order_modify(manager, Cmd("OrderModify", i, id, q, p, "Buy", "LIMIT")))

Next ==
    \/ InstrumentCreate
    \/ InstrumentDelete
    \/ OrderCreateLimit
    \/ OrderCreateMarket
    \/ OrderDelete
    \/ OrderModify

Spec == Init /\ [][Next]_vars

\* ---- the OrderBook operations called directly on one book ------------------
\* A client of the library that owns the book of instrument "X" and calls its
\* operations one after the other.
ApiInit ==
    /\ manager = add_book(EmptyMap, "X")
    /\ last = Outcome(NoCmd, NotCalled, "none")
    /\ ncmds = 0
    /\ chan = <<>>
    /\ tx_open = TRUE
    /\ engine = "running"
    /\ sent = <<>>
    /\ applied = <<>>
    /\ bin = DistributionBin(0, 0)
    /\ bin_out = NoCall
    /\ now = 0
    /\ cache = EmptyCache
    /\ call = Idle

\* The state after an operation returned r (the book it left and its result).
ApiReturn(cmd, r, crossing) ==
    /\ manager' = set_book(manager, "X", r.book)
    /\ last' = [notified(Outcome(cmd, NotCalled, r.err), <<>>, r.events)
                   EXCEPT !.crossing = crossing]

ApiReturnPostOnly(cmd, r) == ApiReturn(cmd, r, r.crossing)

ApiAddLimitOrder ==
    /\ Recv
    /\ \E id \in OrderIds, q \in Quantities, p \in Prices, s \in Sides :
           ApiReturn(Cmd("add_limit_order", "X", id, q, p, s, "LIMIT"),
                     add_limit_order(manager["X"], id, p, q, s), NoCrossing)

ApiAddPostOnlyOrder ==
    /\ Recv
    /\ \E id \in OrderIds, q \in Quantities, p \in Prices, s \in Sides :
           ApiReturnPostOnly(Cmd("add_post_only_order", "X", id, q, p, s, "LIMIT"),
                             add_post_only_order(manager["X"], id, p, q, s))

ApiCancelOrder ==
    /\ Recv
    /\ \E id \in OrderIds :
           ApiReturn(Cmd("cancel_order", "X", id, 0, 0, "Buy", "LIMIT"),
                     cancel_order(manager["X"], id), NoCrossing)

ApiNext ==
    \/ ApiAddLimitOrder
    \/ ApiAddPostOnlyOrder
    \/ ApiCancelOrder

ApiSpec == ApiInit /\ [][ApiNext]_vars

\* ---- match_order and peek_match called on the book ------------------------
\* The limit prices a caller passes: None for a market order, or a price.
LimitPrices == {None} \cup Prices

\* The state after match_order returned m.
ApiMatched(cmd, m) ==
    /\ manager' = set_book(manager, "X", m.book)
    /\ last' = notified(Outcome(cmd, m.result, "none"), <<>>, m.events)

\* The model stops after MaxMatchCalls calls on the book.
MatchRecv ==
    /\ ncmds < MaxMatchCalls
    /\ Recv

MatchAddLimitOrder ==
    /\ ncmds < MaxMatchCalls
    /\ ApiAddLimitOrder

ApiMatchOrder ==
    /\ MatchRecv
    /\ \E id \in OrderIds, s \in Sides, q \in Quantities, l \in LimitPrices :
           ApiMatched(Cmd("match_order", "X", id, q, l, s, "LIMIT"),
                      match_order(manager["X"], id, s, q, l))

\* peek_match takes &self and returns a quantity.
ApiPeeked(cmd, quantity) ==
    /\ manager' = manager
    /\ last' = [Outcome(cmd, NotCalled, "none") EXCEPT !.peek = quantity]

ApiPeekMatch ==
    /\ MatchRecv
    /\ \E s \in Sides, q \in Quantities, l \in LimitPrices :
           ApiPeeked(Cmd("peek_match", "X", 0, q, l, s, "LIMIT"),
                     peek_match(manager["X"], s, q, l))

\* A Reserve order that does not replenish itself, with hidden quantity.
ApiAddReserveOrder ==
    /\ MatchRecv
    /\ \E id \in OrderIds, v \in 1..MaxQty, h \in 1..MaxHidden, p \in 1..MaxPrice, s \in Sides :
           ApiReturn(Cmd("add_reserve_order", "X", id, v, p, s, "LIMIT"),
                     add_reserve_order(manager["X"], id, p, v, h, s), NoCrossing)

MatchApiNext ==
    \/ MatchAddLimitOrder
    \/ ApiAddReserveOrder
    \/ ApiMatchOrder
    \/ ApiPeekMatch

MatchApiSpec == ApiInit /\ [][MatchApiNext]_vars

\* ---- a book with listeners beside a book without ---------------------------
\* Book X has both listeners, book Y the listeners chosen at the start; every
\* command is handled for X and then, the instrument apart, for Y.
with_listeners(book, trade, level) ==
    [book EXCEPT !.trade_listener = trade, !.price_level_changed_listener = level]

Both(x, y) == [x |-> x, y |-> y]

ListenerInit ==
    /\ \E trade \in BOOLEAN, level \in BOOLEAN :
           manager = MapInsert(add_book(EmptyMap, "X"), "Y",
                               with_listeners(EmptyBook, trade, level))
    /\ last = Both(Outcome(NoCmd, NotCalled, "none"), Outcome(NoCmd, NotCalled, "none"))
    /\ ncmds = 0
    /\ chan = <<>>
    /\ tx_open = TRUE
    /\ engine = "running"
    /\ sent = <<>>
    /\ applied = <<>>
    /\ bin = DistributionBin(0, 0)
    /\ bin_out = NoCall
    /\ now = 0
    /\ cache = EmptyCache
    /\ call = Idle

ListenerRecv ==
    /\ ncmds < MaxListenerCmds
    /\ ncmds' = ncmds + 1
    /\ UNCHANGED <<chanvars, statvars, now, cachevars>>

\* The state after the handler returned rx for X and ry for Y.
Second(rx, ry) ==
    /\ WithinTxnBound(ry.manager)
    /\ manager' = ry.manager
    /\ last' = Both(rx.outcome, ry.outcome)

ListenerCreateLimit ==
    /\ ListenerRecv
    /\ \E id \in OrderIds, q \in Quantities, p \in Prices, s \in Sides :
           Second(handle_order_create(manager, Cmd("OrderCreate", "X", id, q, p, s, "LIMIT")),
                  handle_order_create(handle_order_create(manager, Cmd("OrderCreate", "X", id, q, p, s, "LIMIT")).manager,
                                         Cmd("OrderCreate", "Y", id, q, p, s, "LIMIT")))

ListenerCreateMarket ==
    /\ ListenerRecv
    /\ \E id \in OrderIds, q \in Quantities, s \in Sides :
           Second(handle_order_create(manager, Cmd("OrderCreate", "X", id, q, 0, s, "MARKET")),
                  handle_order_create(handle_order_create(manager, Cmd("OrderCreate", "X", id, q, 0, s, "MARKET")).manager,
                                         Cmd("OrderCreate", "Y", id, q, 0, s, "MARKET")))

ListenerDelete ==
    /\ ListenerRecv
    /\ \E id \in OrderIds :
           Second(handle_order_cancel(manager, Cmd("OrderDelete", "X", id, 0, 0, "Buy", "LIMIT")),
                  handle_order_cancel(handle_order_cancel(manager, Cmd("OrderDelete", "X", id, 0, 0, "Buy", "LIMIT")).manager,
                                         Cmd("OrderDelete", "Y", id, 0, 0, "Buy", "LIMIT")))

ListenerModify ==
    /\ ListenerRecv
    /\ \E id \in OrderIds, q \in Quantities, p \in Prices :
           Second(handle_order_modify(manager, Cmd("OrderModify", "X", id, q, p, "Buy", "LIMIT")),
                  handle_order_modify(handle_order_modify(manager, Cmd("OrderModify", "X", id, q, p, "Buy", "LIMIT")).manager,
                                         Cmd("OrderModify", "Y", id, q, p, "Buy", "LIMIT")))

ListenerNext ==
    \/ ListenerCreateLimit
    \/ ListenerCreateMarket
    \/ ListenerDelete
    \/ ListenerModify

ListenerSpec == ListenerInit /\ [][ListenerNext]_vars

\* ---- match_order beside a reader of the best prices ------------------------
\* match_order runs in steps on book X: the invalidation and the early exit,
\* one price level at a time (matched in place, so a reader sees it), the
\* batch removals and the return. A reader calls best_bid()/best_ask()
\* between any two steps.
\* The call in flight: its arguments, the traversal state and the entries
\* not yet visited.
InFlight(pc, order_id, side, quantity, limit_price, st, keys) ==
    [pc |-> pc, order_id |-> order_id, side |-> side, quantity |-> quantity,
     limit_price |-> limit_price, st |-> st, keys |-> keys]

\* The book a reader sees while the traversal is at st: the matched levels
\* and the atomics already stored, the emptied levels still in the map.
in_place(book, side, st) ==
    [with_side(book, Opposite(side), st.levels)
        EXCEPT !.last_trade_price = st.last_trade_price,
               !.has_traded = st.has_traded,
               !.transaction_id_generator = st.gen]

CacheCall ==
    /\ call.pc = "idle"
    /\ ncmds < MaxCacheCalls
    /\ ncmds' = ncmds + 1
    /\ UNCHANGED <<chanvars, statvars, now>>

\* add_limit_order invalidates the cache once the order rests.
CacheAdded(cmd, r) ==
    /\ ApiReturn(cmd, r, NoCrossing)
    /\ cache' = IF r.err = "ok" THEN invalidate(cache) ELSE cache
    /\ call' = call

CacheAddLimitOrder ==
    /\ CacheCall
    /\ \E id \in CacheOrderIds, p \in 1..MaxPrice, q \in 1..MaxQty, s \in Sides :
           CacheAdded(Cmd("add_limit_order", "X", id, q, p, s, "LIMIT"),
                      add_limit_order(manager["X"], id, p, q, s))

\* match_order is called: the invalidation, then the early exit or the
\* entry into the loop.
CacheMatchStart ==
    /\ CacheCall
    /\ cache' = invalidate(cache)
    /\ \E s \in Sides, q \in Quantities, l \in LimitPrices :
           IF DOMAIN match_side(manager["X"], s) = {}
           THEN /\ ApiMatched(Cmd("match_order", "X", MaxOrderId, q, l, s, "LIMIT"),
                              match_order(manager["X"], MaxOrderId, s, q, l))
                /\ call' = Idle
           ELSE /\ call' = InFlight("loop", MaxOrderId, s, q, l,
                                    loop_start(manager["X"], s, q),
                                    DOMAIN match_side(manager["X"], s))
                /\ UNCHANGED <<manager, last>>

\* The traversal after one more level, st being the state it reached.
CacheVisited(price, st) ==
    /\ manager' = set_book(manager, "X", in_place(manager["X"], call.side, st))
    /\ call' = [call EXCEPT !.st = st, !.keys = @ \ {price},
                            !.pc = IF st.remaining_quantity = 0 THEN "remove" ELSE "loop"]

\* One iteration of the loop.
CacheMatchLevel ==
    /\ call.pc = "loop"
    /\ call.keys # {}
    /\ ~beyond_limit(call.side, price_iter_next(call.side, call.keys), call.limit_price)
    /\ CacheVisited(price_iter_next(call.side, call.keys),
                    after_level(call.st, price_iter_next(call.side, call.keys),
                                level_match(call.st.levels[price_iter_next(call.side, call.keys)],
                                            price_iter_next(call.side, call.keys),
                                            call.st.remaining_quantity, call.order_id,
                                            call.st.gen)))
    /\ UNCHANGED <<last, ncmds, cache, chanvars, statvars, now>>

\* The loop is left: the batch removals, then the return.
CacheMatchReturn ==
    /\ \/ call.pc = "remove"
       \/ /\ call.pc = "loop"
          /\ \/ call.keys = {}
             \/ /\ call.keys # {}
                /\ beyond_limit(call.side, price_iter_next(call.side, call.keys),
                                call.limit_price)
    /\ ApiMatched(Cmd("match_order", "X", call.order_id, call.quantity, call.limit_price,
                      call.side, "LIMIT"),
                  after_loop(manager["X"], call.st, call.order_id, call.side,
                             call.quantity, call.limit_price))
    /\ call' = Idle
    /\ UNCHANGED <<ncmds, cache, chanvars, statvars, now>>

\* The reader calls best_bid() or best_ask() and misses.
CacheRead ==
    /\ ~cache.valid
    /\ cache' = cached_best(cache, manager["X"])
    /\ UNCHANGED <<manager, last, ncmds, call, chanvars, statvars, now>>

CacheNext ==
    \/ CacheAddLimitOrder
    \/ CacheMatchStart
    \/ CacheMatchLevel
    \/ CacheMatchReturn
    \/ CacheRead

CacheSpec == ApiInit /\ [][CacheNext]_vars

\* ---- orders that expire ---------------------------------------------------
\* The book's methods called while the clock advances: orders enter with a
\* time in force, the book may have a market close, match_order runs at the
\* current time.
TimeInForces == {Gtc, Day} \cup {Gtd(t) : t \in 1..MaxTime}

\* The call with the time in force it carries.
TifCmd(cmd, time_in_force) ==
    [type |-> cmd.type, instrument_id |-> cmd.instrument_id, order_id |-> cmd.order_id,
     quantity |-> cmd.quantity, price |-> cmd.price, side |-> cmd.side,
     order_type |-> cmd.order_type, time_in_force |-> time_in_force]

TifCall ==
    /\ ncmds < MaxTifCalls
    /\ ncmds' = ncmds + 1
    /\ UNCHANGED <<chanvars, statvars, now, cachevars>>

\* The clock advances.
TifTick ==
    /\ now < MaxTime
    /\ now' = now + 1
    /\ UNCHANGED <<manager, last, ncmds, chanvars, statvars, cachevars>>

TifSetMarketClose ==
    /\ TifCall
    /\ \E t \in 1..MaxTime :
           /\ manager' = set_book(manager, "X", set_market_close(manager["X"], t))
           /\ last' = Outcome(Cmd("set_market_close", "X", 0, 0, t, "Buy", "LIMIT"),
                              NotCalled, "ok")

TifAddLimitOrder ==
    /\ TifCall
    /\ \E id \in TifOrderIds, p \in 1..MaxPrice, q \in 1..MaxQty, s \in Sides,
          tif \in TimeInForces :
           ApiReturn(TifCmd(Cmd("add_limit_order", "X", id, q, p, s, "LIMIT"), tif),
                     add_limit_order_tif(manager["X"], id, p, q, s, tif, now), NoCrossing)

TifMatchOrder ==
    /\ TifCall
    /\ \E s \in Sides, q \in 1..MaxQty, l \in LimitPrices :
           ApiMatched(Cmd("match_order", "X", MaxOrderId, q, l, s, "LIMIT"),
                      match_order(manager["X"], MaxOrderId, s, q, l))

TifNext ==
    \/ TifTick
    \/ TifSetMarketClose
    \/ TifAddLimitOrder
    \/ TifMatchOrder

TifSpec == ApiInit /\ [][TifNext]_vars

\* ---- the producer, the command channel and the engine task ---------------
\* The commands the Kafka loop of main builds from the topics it subscribes
\* to (instrument.create, instrument.delete, order.create, order.modify); the
\* consumer does not subscribe to order.delete.
SentOrderIds == 1..MaxSentOrderId

SentPrices == 1..MaxPrice

SentCommands ==
    {Cmd("InstrumentCreate", i, 0, 0, 0, "Buy", "LIMIT") : i \in Instruments}
    \cup {Cmd("InstrumentDelete", i, 0, 0, 0, "Buy", "LIMIT") : i \in Instruments}
    \cup {Cmd("OrderCreate", "X", x[1], 1, x[2], x[3], "LIMIT") :
              x \in SentOrderIds \X SentPrices \X Sides}
    \cup {Cmd("OrderCreate", "X", x[1], 1, 0, x[2], "MARKET") : x \in SentOrderIds \X Sides}
    \cup {Cmd("OrderModify", "X", x[1], 1, x[2], "Buy", "LIMIT") : x \in SentOrderIds \X SentPrices}

\* Mutant: send never waits for room in the channel.
send_always_ready(queue) == TRUE

\* tx.send(cmd).await completes when the channel has room, and waits otherwise.
send_ready(queue) == Len(queue) < ChannelCapacity

\* Mutant: recv hands out the newest command.
recv_newest(queue) == queue[Len(queue)]

\* rx.recv().await hands out the oldest queued command.
recv_next(queue) == Head(queue)

\* The handler of an instrument command, with its outcome.
instrument_handled(m, cmd) == [manager |-> m, outcome |-> Outcome(cmd, NotCalled, "none")]

\* match cmd { ... }: the handler the engine loop calls for a command.
run_command(m, cmd) ==
    CASE cmd.type = "InstrumentCreate" ->
             instrument_handled(handle_instrument_create(m, cmd.instrument_id), cmd)
      [] cmd.type = "InstrumentDelete" ->
             instrument_handled(handle_instrument_delete(m, cmd.instrument_id), cmd)
      [] cmd.type = "OrderCreate" -> handle_order_create(m, cmd)
      [] cmd.type = "OrderDelete" -> handle_order_cancel(m, cmd)
      [] cmd.type = "OrderModify" -> handle_order_modify(m, cmd)

\* Mutant: the loop ends when a handler's book operation failed.
engine_stops_on_error(outcome) ==
    IF outcome.match.err = "InsufficientLiquidity" \/ outcome.op \notin {"ok", "none"}
    THEN "stopped" ELSE "running"

\* The engine task after a handler returned: the handlers log their errors
\* and return (), the loop goes on to the next recv.
engine_after(outcome) == "running"

\* The producer sends the next command; it waits while the channel is full.
Send ==
    /\ tx_open
    /\ Len(sent) < MaxSent
    /\ send_ready(chan)
    /\ \E cmd \in SentCommands :
           /\ chan' = Append(chan, cmd)
           /\ sent' = Append(sent, cmd)
    /\ UNCHANGED <<manager, last, ncmds, tx_open, engine, applied>>
    /\ UNCHANGED <<statvars, now, cachevars>>

\* The message stream ends: main returns and drops the Sender.
StreamEnds ==
    /\ tx_open
    /\ tx_open' = FALSE
    /\ UNCHANGED <<manager, last, ncmds, chan, engine, sent, applied>>
    /\ UNCHANGED <<statvars, now, cachevars>>

\* The state after the engine handled cmd with result r.
Dispatched(cmd, r) ==
    /\ manager' = r.manager
    /\ last' = r.outcome
    /\ engine' = engine_after(r.outcome)
    /\ applied' = Append(applied, cmd)

\* while let Some(cmd) = rx.recv().await { match cmd { ... } }
Dispatch ==
    /\ engine = "running"
    /\ chan # <<>>
    /\ Dispatched(recv_next(chan), run_command(manager, recv_next(chan)))
    /\ chan' = Tail(chan)
    /\ ncmds' = ncmds + 1
    /\ UNCHANGED <<tx_open, sent>>
    /\ UNCHANGED <<statvars, now, cachevars>>

\* recv returns None: the Sender is dropped and the queue is empty.
EngineStops ==
    /\ engine = "running"
    /\ ~tx_open
    /\ chan = <<>>
    /\ engine' = "stopped"
    /\ UNCHANGED <<manager, last, ncmds, chan, tx_open, sent, applied>>
    /\ UNCHANGED <<statvars, now, cachevars>>

\* main has returned: the runtime of #[tokio::main] shuts down and drops the
\* spawned engine task, which nothing joins, where it awaits recv.
RuntimeShutdown ==
    /\ engine = "running"
    /\ ~tx_open
    /\ engine' = "cancelled"
    /\ UNCHANGED <<manager, last, ncmds, chan, tx_open, sent, applied>>
    /\ UNCHANGED <<statvars, now, cachevars>>

ChannelNext ==
    \/ Send
    \/ StreamEnds
    \/ Dispatch
    \/ EngineStops
    \/ RuntimeShutdown

ChannelSpec == Init /\ [][ChannelNext]_vars

\* ---- the engine with two instruments ------------------------------------
\* The commands of a run over two trading symbols, which use the same order
\* ids and prices.
TwoInstruments == {"X", "Y"}

BooksOrderIds == 1..MaxBooksOrderId

BooksCommands ==
    {Cmd("InstrumentCreate", i, 0, 0, 0, "Buy", "LIMIT") : i \in TwoInstruments}
    \cup {Cmd("InstrumentDelete", i, 0, 0, 0, "Buy", "LIMIT") : i \in TwoInstruments}
    \cup {Cmd("OrderCreate", x[1], x[2], 1, x[3], x[4], "LIMIT") :
              x \in TwoInstruments \X BooksOrderIds \X SentPrices \X Sides}
    \cup {Cmd("OrderCreate", x[1], x[2], 1, 0, x[3], "MARKET") :
              x \in TwoInstruments \X BooksOrderIds \X Sides}
    \cup {Cmd("OrderDelete", x[1], x[2], 0, 0, "Buy", "LIMIT") :
              x \in TwoInstruments \X BooksOrderIds}
    \cup {Cmd("OrderModify", x[1], x[2], 1, x[3], "Buy", "LIMIT") :
              x \in TwoInstruments \X BooksOrderIds \X SentPrices}

\* One turn of the engine loop for a command of the given type.
BooksDispatch(type) ==
    /\ ncmds < MaxBooksCmds
    /\ ncmds' = ncmds + 1
    /\ \E cmd \in {c \in BooksCommands : c.type = type} : Apply(run_command(manager, cmd))
    /\ UNCHANGED chanvars
    /\ UNCHANGED <<statvars, now, cachevars>>

BooksNext ==
    \/ BooksDispatch("InstrumentCreate")
    \/ BooksDispatch("InstrumentDelete")
    \/ BooksDispatch("OrderCreate")
    \/ BooksDispatch("OrderDelete")
    \/ BooksDispatch("OrderModify")

BooksSpec == Init /\ [][BooksNext]_vars

\* ---- the methods of a DistributionBin -------------------------------------
\* Any bin of two u64 prices, no method called yet.
StatInit ==
    /\ manager = EmptyMap
    /\ last = Outcome(NoCmd, NotCalled, "none")
    /\ ncmds = 0
    /\ chan = <<>>
    /\ tx_open = TRUE
    /\ engine = "running"
    /\ sent = <<>>
    /\ applied = <<>>
    /\ bin \in {DistributionBin(x[1], x[2]) : x \in U64 \X U64}
    /\ bin_out = NoCall
    /\ now = 0
    /\ cache = EmptyCache
    /\ call = Idle

Midpoint ==
    /\ bin_out' \in midpoint(bin)
    /\ UNCHANGED <<manager, last, ncmds, chanvars, bin, now, cachevars>>

Width ==
    /\ bin_out' = width(bin)
    /\ UNCHANGED <<manager, last, ncmds, chanvars, bin, now, cachevars>>

StatNext ==
    \/ Midpoint
    \/ Width

StatSpec == StatInit /\ [][StatNext]_vars

\* ---- vocabulary of the properties ----------------------------------------
\* The book of instrument i, an absent book read as the empty book an
\* OrderCreate would create for it.
BookOf(m, i) == IF i \in DOMAIN m THEN m[i] ELSE EmptyBook

SideMap(book, side) == IF side = "Buy" THEN book.bids ELSE book.asks

LevelKeys(book) == {sp \in Sides \X Prices : sp[2] \in DOMAIN SideMap(book, sp[1])}

\* The (side, price, position) places where order id rests in a book.
Places(book, id) ==
    UNION {{<<sp[1], sp[2], k>> :
               k \in {j \in DOMAIN SideMap(book, sp[1])[sp[2]] :
                         SideMap(book, sp[1])[sp[2]][j].id = id}} :
           sp \in LevelKeys(book)}

RestingIds(book) == {id \in OrderIds : Places(book, id) # {}}

IsCreate(c) == c.type = "OrderCreate"

IsMarket(c) == c.type = "OrderCreate" /\ c.order_type = "MARKET"

IsLimit(c) == c.type = "OrderCreate" /\ c.order_type = "LIMIT"

MatchCalled == last.match.err # "NotCalled"

\* The last match traded, every maker being another order than the taker.
GenuineTrade ==
    /\ MatchCalled
    /\ last.match.transactions # <<>>
    /\ \A k \in DOMAIN last.match.transactions :
           /\ last.match.transactions[k].maker_order_id # last.match.order_id
           /\ last.match.transactions[k].quantity > 0

\* The orders resting in a book, as (side, price, id, quantity).
Resting(book) ==
    UNION {{<<sp[1], sp[2], SideMap(book, sp[1])[sp[2]][k].id,
              SideMap(book, sp[1])[sp[2]][k].quantity>> :
               k \in DOMAIN SideMap(book, sp[1])[sp[2]]} :
           sp \in LevelKeys(book)}

\* Price a is strictly better than price b for a taker of this side.
Better(side, a, b) == IF side = "Buy" THEN a < b ELSE a > b

\* C1: after every command, in every book, best_bid < best_ask when both exist.
C1_NoCrossedBook ==
    \A i \in DOMAIN manager :
        (best_bid(manager[i]) # None /\ best_ask(manager[i]) # None)
            => best_bid(manager[i]) < best_ask(manager[i])

\* C2: after every command, order_locations has exactly the ids of the orders
\* resting in bids or asks, and each entry names the side and price level
\* where that order rests.
C2_LocationsExact ==
    \A i \in DOMAIN manager :
        LET book == manager[i] IN
        /\ DOMAIN book.order_locations = RestingIds(book)
        /\ \A id \in DOMAIN book.order_locations :
               \A pl \in Places(book, id) :
                   book.order_locations[id] = <<pl[2], pl[1]>>

\* C2 witness: a match has filled a maker completely while another order
\* still rests with its location recorded.
C2_Witness ==
    /\ GenuineTrade
    /\ last.match.filled_order_ids # <<>>
    /\ \E i \in DOMAIN manager :
           /\ DOMAIN manager[i].order_locations # {}
           /\ \A k \in DOMAIN last.match.filled_order_ids :
                  last.match.filled_order_ids[k] \notin DOMAIN manager[i].order_locations

\* C3: after every command, no price level with order_count = 0 is present
\* in bids or asks.
C3_NoEmptyLevel ==
    \A i \in DOMAIN manager :
        \A s \in Sides :
            \A p \in DOMAIN SideMap(manager[i], s) :
                order_count(SideMap(manager[i], s)[p]) > 0

\* C3 witness: a match has traded at a price whose level is afterwards gone
\* from the opposite side map, while the book still holds another level.
C3_Witness ==
    /\ GenuineTrade
    /\ LET book == manager[last.cmd.instrument_id]
           opp == SideMap(book, Opposite(last.match.side))
       IN /\ last.match.transactions[1].price \notin DOMAIN opp
          /\ DOMAIN book.bids \cup DOMAIN book.asks # {}

\* C4: after any sequence of commands each live order id occurs at most once
\* in the whole book (bids and asks together).
C4_UniqueLiveIds ==
    \A i \in DOMAIN manager :
        \A id \in OrderIds : Cardinality(Places(manager[i], id)) <= 1

\* C4 witness: an OrderCreate whose id was already live reached add_limit_order
\* and was refused there, the earlier order still resting.
C4_Witness ==
    /\ IsLimit(last.cmd)
    /\ last.op = "DuplicateOrderId"
    /\ Cardinality(Places(manager[last.cmd.instrument_id], last.cmd.order_id)) = 1
    /\ \E r \in Resting(manager[last.cmd.instrument_id]) :
           r[3] = last.cmd.order_id /\ r[4] > 0

\* C5: for every successful match_order the transaction quantities sum to
\* quantity - remaining_quantity, and remaining_quantity <= quantity.
C5_MatchedQuantity ==
    (MatchCalled /\ last.match.ok) =>
        /\ SumQty(last.match.transactions) = last.match.quantity - last.match.remaining_quantity
        /\ last.match.remaining_quantity <= last.match.quantity

\* C5 witness: a successful match that traded and left quantity over.
C5_Witness ==
    /\ GenuineTrade
    /\ last.match.ok
    /\ last.match.remaining_quantity > 0

\* C6: match_order honours strict price priority: the transactions of one
\* MatchResult never go from a price to a strictly better one, and an order
\* at price p trades only when no opposite level with a strictly better price
\* is left in the book by that call.
C6_PricePriority ==
    MatchCalled =>
        LET t == last.match.transactions
            side == last.match.side
            opp == SideMap(manager[last.cmd.instrument_id], Opposite(side))
        IN /\ \A a, b \in DOMAIN t : a < b => ~Better(side, t[b].price, t[a].price)
           /\ \A k \in DOMAIN t : \A q \in DOMAIN opp : ~Better(side, q, t[k].price)

\* C6 witness: one match traded at two different prices.
C6_Witness ==
    /\ GenuineTrade
    /\ \E a, b \in DOMAIN last.match.transactions :
           last.match.transactions[a].price # last.match.transactions[b].price

\* The transactions of t against maker id at price p.
FillsOf(t, id, p) == SelectSeq(t, LAMBDA x : x.maker_order_id = id /\ x.price = p)

\* C7: within one price level matching is FIFO: of two orders resting at the
\* same price and side, the later one receives a fill only after the earlier
\* one's quantity has been consumed in full.
C7_FifoStep ==
    LET m == last'.match
        t == m.transactions
        pre == SideMap(BookOf(manager, last'.cmd.instrument_id), Opposite(m.side))
    IN m.err # "NotCalled" =>
        \A p \in DOMAIN pre : \A a, b \in DOMAIN pre[p] :
            (a < b /\ FillsOf(t, pre[p][b].id, p) # <<>>) =>
                /\ SumQty(FillsOf(t, pre[p][a].id, p)) = pre[p][a].quantity
                /\ \A ka, kb \in DOMAIN t :
                       (/\ t[ka].maker_order_id = pre[p][a].id
                        /\ t[kb].maker_order_id = pre[p][b].id
                        /\ t[ka].price = p /\ t[kb].price = p) => ka < kb

C7_FifoWithinLevel == [][C7_FifoStep]_vars

\* C7 witness: one match filled two different makers at the same price.
C7_Witness ==
    /\ GenuineTrade
    /\ \E a, b \in DOMAIN last.match.transactions :
           /\ a < b
           /\ last.match.transactions[a].price = last.match.transactions[b].price
           /\ last.match.transactions[a].maker_order_id
                  # last.match.transactions[b].maker_order_id

\* C8: match_order with limit_price = Some(L) produces no transaction beyond
\* L (price <= L for Buy, >= L for Sell) and leaves every opposite level
\* beyond L exactly as it was.
C8_LimitStep ==
    LET m == last'.match
        t == m.transactions
        L == m.limit_price
        pre == SideMap(BookOf(manager, last'.cmd.instrument_id), Opposite(m.side))
        post == SideMap(BookOf(manager', last'.cmd.instrument_id), Opposite(m.side))
    IN (m.err # "NotCalled" /\ L # None) =>
        /\ \A k \in DOMAIN t :
               IF m.side = "Buy" THEN t[k].price <= L ELSE t[k].price >= L
        /\ \A p \in DOMAIN pre :
               (IF m.side = "Buy" THEN p > L ELSE p < L) =>
                   (p \in DOMAIN post /\ post[p] = pre[p])

C8_LimitRespected == [][C8_LimitStep]_vars

\* C8 witness: a limit match traded and a level beyond its limit is still
\* resting on the opposite side.
C8_Witness ==
    /\ GenuineTrade
    /\ last.match.limit_price # None
    /\ \E p \in DOMAIN SideMap(manager[last.cmd.instrument_id], Opposite(last.match.side)) :
           IF last.match.side = "Buy" THEN p > last.match.limit_price
           ELSE p < last.match.limit_price

\* The fields of a book that an operation may change.
BookState(book) ==
    <<book.bids, book.asks, book.order_locations, book.last_trade_price, book.has_traded>>

\* C9: a market order that matches nothing fails with
\* InsufficientLiquidity{side, requested = qty, available = 0} and leaves
\* bids, asks, order_locations, last_trade_price and has_traded unchanged.
C9_MarketStep ==
    (IsMarket(last'.cmd) /\ last'.match.transactions = <<>>) =>
        /\ last'.match.err = "InsufficientLiquidity"
        /\ last'.match.side = last'.cmd.side
        /\ last'.match.requested = last'.cmd.quantity
        /\ last'.match.available = 0
        /\ BookState(BookOf(manager', last'.cmd.instrument_id))
               = BookState(BookOf(manager, last'.cmd.instrument_id))

C9_UnmatchedMarketLeavesBook == [][C9_MarketStep]_vars

\* C10 as stated: after OrderCreate(Market) the taker's order id is in neither
\* bids, asks nor order_locations.
C10_TakerIdAbsent ==
    IsMarket(last.cmd) =>
        /\ last.cmd.order_id \notin RestingIds(manager[last.cmd.instrument_id])
        /\ last.cmd.order_id \notin DOMAIN manager[last.cmd.instrument_id].order_locations

\* C10 as amended: OrderCreate(Market) inserts nothing: every order resting
\* after it rested before it at the same side and price with at least that
\* quantity, every order_locations entry was there before, and a taker id
\* that was not live before the command is not in the book after it.
C10_MarketStep ==
    LET pre == BookOf(manager, last'.cmd.instrument_id)
        post == BookOf(manager', last'.cmd.instrument_id)
        id == last'.cmd.order_id
    IN IsMarket(last'.cmd) =>
        /\ \A r \in Resting(post) :
               \E r0 \in Resting(pre) :
                   r0[1] = r[1] /\ r0[2] = r[2] /\ r0[3] = r[3] /\ r[4] <= r0[4]
        /\ \A o \in DOMAIN post.order_locations :
               o \in DOMAIN pre.order_locations
                   /\ post.order_locations[o] = pre.order_locations[o]
        /\ id \notin DOMAIN pre.order_locations =>
               (id \notin RestingIds(post) /\ id \notin DOMAIN post.order_locations)

C10_MarketNeverRests == [][C10_MarketStep]_vars

\* C10 witness: a market order was filled in part, its remainder discarded.
C10_Witness ==
    /\ IsMarket(last.cmd)
    /\ GenuineTrade
    /\ last.match.ok
    /\ last.match.remaining_quantity > 0
    /\ last.cmd.order_id \notin DOMAIN manager[last.cmd.instrument_id].order_locations

\* Whether a limit order of this side and price crosses the best opposite
\* price of a book.
Crosses(book, side, price) ==
    IF side = "Buy"
    THEN \E a \in DOMAIN book.asks : (\A x \in DOMAIN book.asks : a <= x) /\ price >= a
    ELSE \E b \in DOMAIN book.bids : (\A x \in DOMAIN book.bids : b >= x) /\ price <= b

\* The last order of the level (side, price) of a book, as (id, quantity);
\* <<0, 0>> when there is no such level.
TailOf(book, side, price) ==
    IF price \in DOMAIN SideMap(book, side)
    THEN <<SideMap(book, side)[price][Len(SideMap(book, side)[price])].id,
           SideMap(book, side)[price][Len(SideMap(book, side)[price])].quantity>>
    ELSE <<0, 0>>

\* Every order resting in post rested in pre at the same place with at least
\* that quantity: nothing was inserted.
NothingInserted(pre, post) ==
    /\ \A r \in Resting(post) :
           \E r0 \in Resting(pre) :
               r0[1] = r[1] /\ r0[2] = r[2] /\ r0[3] = r[3] /\ r[4] <= r0[4]
    /\ \A o \in DOMAIN post.order_locations :
           o \in DOMAIN pre.order_locations
               /\ post.order_locations[o] = pre.order_locations[o]

\* C11 as stated: a limit order is matched iff it is aggressive; the remainder
\* of an aggressive order (if > 0) then rests under the order's id at the limit
\* price on its own side; a non-aggressive order rests with its full quantity
\* and makes no transaction.
C11_RestStep ==
    LET c == last'.cmd
        pre == BookOf(manager, c.instrument_id)
        post == BookOf(manager', c.instrument_id)
    IN IsLimit(c) =>
        /\ (last'.match.err # "NotCalled") <=> Crosses(pre, c.side, c.price)
        /\ Crosses(pre, c.side, c.price) =>
               (last'.match.remaining_quantity > 0 =>
                    TailOf(post, c.side, c.price) = <<c.order_id, last'.match.remaining_quantity>>)
        /\ ~Crosses(pre, c.side, c.price) =>
               /\ last'.match.transactions = <<>>
               /\ TailOf(post, c.side, c.price) = <<c.order_id, c.quantity>>

Accepted(pre, c, m) ==
    /\ c.price > 0
    /\ \/ c.order_id \notin DOMAIN pre.order_locations
       \/ c.order_id \in SeqToSet(m.filled_order_ids)

\* C11 as amended: a limit order is matched with match_limit_order at its
\* limit price iff it is aggressive; the remainder of an aggressive order (if
\* > 0), or the full quantity of a non-aggressive one, is handed to
\* add_limit_order under the order's id at the limit price on its own side,
\* which rests it at the tail of that level unless the price is 0 or the id
\* is live, and then inserts nothing; a non-aggressive order makes no
\* transaction.
C11_LimitStep ==
    LET c == last'.cmd
        m == last'.match
        pre == BookOf(manager, c.instrument_id)
        post == BookOf(manager', c.instrument_id)
    IN IsLimit(c) =>
        /\ (m.err # "NotCalled") <=> Crosses(pre, c.side, c.price)
        /\ Crosses(pre, c.side, c.price) =>
               /\ m.ok /\ m.order_id = c.order_id /\ m.side = c.side
               /\ m.quantity = c.quantity /\ m.limit_price = c.price
               /\ IF m.remaining_quantity = 0
                  THEN last'.op = "none" /\ NothingInserted(pre, post)
                  ELSE IF Accepted(pre, c, m)
                  THEN /\ last'.op = "ok"
                       /\ TailOf(post, c.side, c.price) = <<c.order_id, m.remaining_quantity>>
                       /\ post.order_locations[c.order_id] = <<c.price, c.side>>
                  ELSE /\ last'.op \in {"InvalidPriceLevel", "DuplicateOrderId"}
                       /\ NothingInserted(pre, post)
        /\ ~Crosses(pre, c.side, c.price) =>
               /\ m.transactions = <<>>
               /\ IF Accepted(pre, c, m)
                  THEN /\ last'.op = "ok"
                       /\ TailOf(post, c.side, c.price) = <<c.order_id, c.quantity>>
                       /\ Resting(post) = Resting(pre) \cup {<<c.side, c.price, c.order_id, c.quantity>>}
                       /\ post.order_locations[c.order_id] = <<c.price, c.side>>
                  ELSE /\ last'.op \in {"InvalidPriceLevel", "DuplicateOrderId"}
                       /\ BookState(post) = BookState(pre)

IsPostOnly(c) == c.type = "add_post_only_order"

\* C12 as stated: add_limit_order of a PostOnly order whose price would cross
\* is rejected with PriceCrossing{price, side, opposite_price = best opposite
\* price}; no match is performed and the book is unchanged.
C12_CrossStep ==
    LET c == last'.cmd
        pre == manager[c.instrument_id]
    IN (IsPostOnly(c) /\ Crosses(pre, c.side, c.price)) =>
        /\ last'.op = "PriceCrossing"
        /\ last'.crossing.price = c.price
        /\ last'.crossing.side = c.side
        /\ last'.crossing.opposite_price \in DOMAIN SideMap(pre, Opposite(c.side))
        /\ \A x \in DOMAIN SideMap(pre, Opposite(c.side)) :
               ~Better(c.side, x, last'.crossing.opposite_price)
        /\ last'.match.err = "NotCalled"
        /\ manager' = manager

C12_PostOnlyStep ==
    LET c == last'.cmd
        pre == manager[c.instrument_id]
    IN (IsPostOnly(c) /\ Crosses(pre, c.side, c.price)) =>
        /\ last'.match.err = "NotCalled"
        /\ manager' = manager
        /\ IF c.price = 0 THEN last'.op = "InvalidPriceLevel"
           ELSE IF c.order_id \in DOMAIN pre.order_locations
           THEN last'.op = "DuplicateOrderId"
           ELSE /\ last'.op = "PriceCrossing"
                /\ last'.crossing.price = c.price
                /\ last'.crossing.side = c.side
                /\ last'.crossing.opposite_price \in DOMAIN SideMap(pre, Opposite(c.side))
                /\ \A x \in DOMAIN SideMap(pre, Opposite(c.side)) :
                       ~Better(c.side, x, last'.crossing.opposite_price)

AddCalledAtZero(o) ==
    /\ IsLimit(o.cmd)
    /\ o.cmd.price = 0
    /\ o.match.err = "NotCalled" \/ ~o.match.ok \/ o.match.remaining_quantity > 0

\* C13: add_limit_order with price 0 is rejected with InvalidPriceLevel and
\* leaves the book as it found it, so no level at price 0 ever exists in
\* bids or asks.
C13_ZeroPriceStep ==
    /\ AddCalledAtZero(last') =>
           /\ last'.op = "InvalidPriceLevel"
           /\ NothingInserted(BookOf(manager, last'.cmd.instrument_id),
                              BookOf(manager', last'.cmd.instrument_id))
           /\ last'.match.err = "NotCalled" =>
                  BookState(BookOf(manager', last'.cmd.instrument_id))
                      = BookState(BookOf(manager, last'.cmd.instrument_id))
    /\ \A i \in DOMAIN manager' :
           0 \notin (DOMAIN manager'[i].bids) \cup (DOMAIN manager'[i].asks)

C13_ZeroPriceRejected == [][C13_ZeroPriceStep]_vars

\* C13 witness: a limit order at price 0 was rejected with InvalidPriceLevel
\* by a book that holds resting orders.
C13_Witness ==
    /\ AddCalledAtZero(last)
    /\ last.op = "InvalidPriceLevel"
    /\ last.cmd.quantity > 0
    /\ last.cmd.order_id \notin DOMAIN manager[last.cmd.instrument_id].order_locations
    /\ Resting(manager[last.cmd.instrument_id]) # {}

\* An OrderDelete or OrderModify command.
IsCancelOrModify(c) == c.type \in {"OrderDelete", "OrderModify"}

\* C14: cancel_order and update_order on an order id that does not rest in
\* the book fail with OrderNotFound and leave the book unchanged.
C14_NotFoundStep ==
    (/\ IsCancelOrModify(last'.cmd)
     /\ last'.cmd.instrument_id \in DOMAIN manager
     /\ last'.cmd.order_id \notin RestingIds(manager[last'.cmd.instrument_id])) =>
        /\ last'.op = "OrderNotFound"
        /\ manager' = manager

\* A successful cancel leaves the id not resting, so that the step above
\* applies to a following OrderModify of the same id.
C14_CancelStep ==
    (last'.cmd.type = "OrderDelete" /\ last'.op = "ok") =>
        /\ last'.cmd.order_id \in RestingIds(manager[last'.cmd.instrument_id])
        /\ last'.cmd.order_id \notin RestingIds(manager'[last'.cmd.instrument_id])
        /\ last'.cmd.order_id \notin DOMAIN manager'[last'.cmd.instrument_id].order_locations

\* C14: cancel_order and update_order on an id that is not live fail with
\* OrderNotFound and leave the book unchanged; an id is not live after its
\* successful cancel, so a following OrderModify of it yields OrderNotFound.
C14_NotLiveNotFound == [][C14_NotFoundStep /\ C14_CancelStep]_vars

\* C14 witness: an OrderModify of an id that does not rest failed with
\* OrderNotFound in a book that holds other orders.
C14_Witness ==
    /\ last.cmd.type = "OrderModify"
    /\ last.op = "OrderNotFound"
    /\ last.cmd.price > 0
    /\ Resting(manager[last.cmd.instrument_id]) # {}
    /\ manager[last.cmd.instrument_id].has_traded

\* The ids of the orders of a level other than id, in queue order.
OthersOf(book, side, price, id) ==
    IF price \in DOMAIN SideMap(book, side)
    THEN SelectSeq(SideMap(book, side)[price], LAMBDA o : o.id # id)
    ELSE <<>>

\* A successful OrderModify puts the order, with its new quantity, at the
\* tail of the level of its side and new price, also when the price is the
\* old one, and leaves the other orders of every level in their order.
C15_ModifyStep ==
    LET c == last'.cmd
        pre == manager[c.instrument_id]
        post == manager'[c.instrument_id]
    IN (c.type = "OrderModify" /\ last'.op = "ok") =>
        /\ TailOf(post, pre.order_locations[c.order_id][2], c.price) = <<c.order_id, c.quantity>>
        /\ Places(post, c.order_id)
               = {<<pre.order_locations[c.order_id][2], c.price,
                    Len(SideMap(post, pre.order_locations[c.order_id][2])[c.price])>>}
        /\ post.order_locations[c.order_id] = <<c.price, pre.order_locations[c.order_id][2]>>
        /\ \A sp \in Sides \X Prices :
               OthersOf(post, sp[1], sp[2], c.order_id) = OthersOf(pre, sp[1], sp[2], c.order_id)

\* C15: a modify is a cancel followed by a re-add under the same id: the
\* modified order re-enters at the tail of the FIFO of its new price level,
\* also when the new price is the old one, and since a match consumes a
\* level from its head, an order that was behind it is matched before it.
C15_ModifyLosesPriority == [][C15_ModifyStep /\ C7_FifoStep]_vars

\* C15 witness: a modified order rests at the tail of a level behind another
\* order of that level.
C15_Witness ==
    /\ last.cmd.type = "OrderModify"
    /\ last.op = "ok"
    /\ \E s \in Sides :
           /\ last.cmd.price \in DOMAIN SideMap(manager[last.cmd.instrument_id], s)
           /\ Len(SideMap(manager[last.cmd.instrument_id], s)[last.cmd.price]) >= 2
           /\ TailOf(manager[last.cmd.instrument_id], s, last.cmd.price)
                  = <<last.cmd.order_id, last.cmd.quantity>>
           /\ SideMap(manager[last.cmd.instrument_id], s)[last.cmd.price][1].quantity > 0

\* The book operation of the last command returned an error: its match_order
\* call did, or it made no match_order call and its add, cancel or update
\* call did (or found no book).
OperationFailed(o) ==
    \/ o.match.err = "InsufficientLiquidity"
    \/ o.match.err = "NotCalled" /\ o.op \notin {"ok", "none"}

\* C16: whenever add_limit_order, match_order, cancel_order or update_order
\* returns an error, bids, asks, order_locations, last_trade_price and
\* has_traded are as before the call and no transaction was made.
C16_FailureStep ==
    OperationFailed(last') =>
        /\ BookState(BookOf(manager', last'.cmd.instrument_id))
               = BookState(BookOf(manager, last'.cmd.instrument_id))
        /\ last'.match.transactions = <<>>

C16_AtomicOnFailure == [][C16_FailureStep]_vars

\* The manager and the outcome that handling the commands one after the
\* other, in the order of the sequence, leaves.
RECURSIVE Replay(_)
Replay(cmds) ==
    IF cmds = <<>>
    THEN [manager |-> EmptyMap, outcome |-> Outcome(NoCmd, NotCalled, "none")]
    ELSE run_command(Replay(SubSeq(cmds, 1, Len(cmds) - 1)).manager, cmds[Len(cmds)])

\* The command's book operation returned an error, or its book was missing.
CommandFailed(o) ==
    \/ o.match.err = "InsufficientLiquidity"
    \/ o.op \notin {"ok", "none"}

\* A step in which the engine handles a command.
Handles == applied' # applied

\* C17: the dispatcher never aborts on a failing command: after a command
\* whose book operation returned an error or whose book is missing the engine
\* is still in its loop, and the command it takes after a failed one is the
\* oldest queued, handled like any other.
C17_FailureStep ==
    /\ (Handles /\ CommandFailed(last')) => engine' = "running"
    /\ (Handles /\ CommandFailed(last)) =>
           /\ manager' = run_command(manager, Head(chan)).manager
           /\ last' = run_command(manager, Head(chan)).outcome
           /\ chan' = Tail(chan)

C17_NeverAborts == [][C17_FailureStep]_vars

\* C17 witness: the engine handled a command with success after one that
\* failed, and is still running.
C17_Witness ==
    /\ Len(applied) >= 2
    /\ CommandFailed(Replay(SubSeq(applied, 1, Len(applied) - 1)).outcome)
    /\ last.cmd = applied[Len(applied)]
    /\ last.op = "ok"
    /\ engine = "running"

\* C18: commands are applied in arrival order: the commands handled so far,
\* followed by those still queued, are the commands sent, in the order sent,
\* and the books and the last outcome are those that handling the commands
\* one after the other in that order gives.
C18_ArrivalOrder ==
    /\ applied \o chan = sent
    /\ manager = Replay(applied).manager
    /\ last = Replay(applied).outcome

\* C18 witness: two commands were handled whose order matters, a third is
\* queued behind them.
C18_Witness ==
    /\ Len(applied) = 2
    /\ chan # <<>>
    /\ Replay(<<applied[2], applied[1]>>).manager # manager
    /\ last.match.transactions # <<>>

\* C19: when the command channel is closed the dispatcher terminates only
\* after every command enqueued before the close has been applied.
C19_DrainedBeforeTermination ==
    engine # "running" => (chan = <<>> /\ applied = sent)

\* C20: the channel is bounded: the commands queued never exceed its
\* capacity, a send into a full channel is not accepted before the dispatcher
\* has taken a command, and while the dispatcher runs the commands accepted
\* are exactly those handled followed by those queued, none dropped, none
\* twice.
C20_BoundedChannel ==
    /\ [](/\ Len(chan) <= ChannelCapacity
          /\ engine = "running" => applied \o chan = sent)
    /\ [][Len(chan) = ChannelCapacity => sent' = sent]_vars

\* C20 witness: the channel is full while the producer has sent less than it
\* will and the dispatcher has already taken a command.
C20_Witness ==
    /\ Len(chan) = ChannelCapacity
    /\ tx_open
    /\ engine = "running"
    /\ Len(applied) >= 1

\* C21: InstrumentCreate and InstrumentDelete are idempotent: after an
\* InstrumentCreate the book exists and after an InstrumentDelete it does
\* not; an InstrumentCreate for an existing instrument leaves the book and
\* its resting orders unchanged, an InstrumentDelete for an instrument that
\* has no book changes nothing, and neither raises an error.
C21_InstrumentStep ==
    /\ last'.cmd.type = "InstrumentCreate" =>
           /\ last'.cmd.instrument_id \in DOMAIN manager'
           /\ last'.op = "none"
           /\ last'.cmd.instrument_id \in DOMAIN manager => manager' = manager
    /\ last'.cmd.type = "InstrumentDelete" =>
           /\ last'.cmd.instrument_id \notin DOMAIN manager'
           /\ last'.op = "none"
           /\ last'.cmd.instrument_id \notin DOMAIN manager => manager' = manager

C21_InstrumentIdempotent == [][C21_InstrumentStep]_vars

\* C21 witness: after an InstrumentCreate the book holds resting orders and
\* has traded, so it existed before the command and was kept.
C21_Witness ==
    /\ last.cmd.type = "InstrumentCreate"
    /\ Resting(manager[last.cmd.instrument_id]) # {}
    /\ manager[last.cmd.instrument_id].has_traded

\* C22: an OrderCreate for an instrument without a book creates an empty
\* book and processes the order against it: the book exists afterwards
\* whatever the outcome; a market order finds no liquidity and leaves the
\* book empty, a limit order is not matched and, unless add_limit_order
\* rejects it, is the only order of the book.
C22_CreateStep ==
    LET c == last'.cmd
    IN IsCreate(c) =>
        /\ c.instrument_id \in DOMAIN manager'
        /\ \A i \in DOMAIN manager : i \in DOMAIN manager'
        /\ c.instrument_id \notin DOMAIN manager =>
               /\ last'.match.transactions = <<>>
               /\ IsMarket(c) =>
                      /\ last'.match.err = "InsufficientLiquidity"
                      /\ manager'[c.instrument_id] = EmptyBook
               /\ IsLimit(c) =>
                      /\ last'.match.err = "NotCalled"
                      /\ IF last'.op = "ok"
                         THEN /\ Resting(manager'[c.instrument_id])
                                     = {<<c.side, c.price, c.order_id, c.quantity>>}
                              /\ DOMAIN manager'[c.instrument_id].order_locations = {c.order_id}
                         ELSE manager'[c.instrument_id] = EmptyBook

C22_ImplicitBook == [][C22_CreateStep]_vars

\* C22 witness: the first command the engine received was a market order; it
\* failed with InsufficientLiquidity and the empty book of its instrument exists.
C22_Witness ==
    /\ ncmds = 1
    /\ IsMarket(last.cmd)
    /\ last.cmd.quantity > 0
    /\ last.match.err = "InsufficientLiquidity"
    /\ manager[last.cmd.instrument_id] = EmptyBook

\* The position in cmds, before its last command, of the latest
\* InstrumentDelete of instrument i; 0 when there is none.
LastDelete(cmds, i) ==
    SetMax({0} \cup {k \in 1..(Len(cmds) - 1) :
                        cmds[k].type = "InstrumentDelete" /\ cmds[k].instrument_id = i})

\* Order id of instrument i was submitted by a command of cmds after position d.
PlacedAfter(cmds, d, i, id) ==
    \E j \in (d + 1)..Len(cmds) :
        /\ cmds[j].type \in {"OrderCreate", "OrderModify"}
        /\ cmds[j].instrument_id = i
        /\ cmds[j].order_id = id

\* C23: InstrumentDelete drops the book with all its orders: after it the
\* instrument has no book; the book re-created by the next InstrumentCreate is
\* empty and the one re-created by the next OrderCreate holds at most that
\* order and has matched nothing; every maker of a later match and every order
\* resting later was submitted after the delete.
C23_DeletedBookDropped ==
    applied # <<>> =>
        LET c == applied[Len(applied)]
            i == c.instrument_id
            d == LastDelete(applied, i)
        IN /\ c.type = "InstrumentDelete" => i \notin DOMAIN manager
           /\ (d > 0 /\ d = Len(applied) - 1 /\ c.type = "InstrumentCreate") =>
                  manager[i] = EmptyBook
           /\ (d > 0 /\ d = Len(applied) - 1 /\ IsCreate(c)) =>
                  /\ last.match.transactions = <<>>
                  /\ Resting(manager[i]) \subseteq {<<c.side, c.price, c.order_id, c.quantity>>}
                  /\ ~manager[i].has_traded
           /\ (d > 0 /\ c.type # "InstrumentDelete") =>
                  /\ \A k \in DOMAIN last.match.transactions :
                         PlacedAfter(applied, d, i, last.match.transactions[k].maker_order_id)
                  /\ \A r \in Resting(BookOf(manager, i)) : PlacedAfter(applied, d, i, r[3])

\* C23 witness: a sell order rested, its instrument was deleted, and a buy
\* limit order of another id at a price that reaches the sell order's matched
\* nothing and is the only order of the re-created book.
C23_Witness ==
    /\ Len(applied) = 3
    /\ IsLimit(applied[1]) /\ applied[1].side = "Sell"
    /\ applied[2].type = "InstrumentDelete"
    /\ applied[2].instrument_id = applied[1].instrument_id
    /\ IsLimit(applied[3]) /\ applied[3].side = "Buy"
    /\ applied[3].instrument_id = applied[1].instrument_id
    /\ applied[3].order_id # applied[1].order_id
    /\ applied[3].price >= applied[1].price
    /\ last.match.transactions = <<>>
    /\ Resting(manager[applied[3].instrument_id])
           = {<<"Buy", applied[3].price, applied[3].order_id, applied[3].quantity>>}

\* C24: books are independent: a command addressed to one instrument leaves
\* the existence and the whole state (bids, asks, order_locations,
\* last_trade_price, has_traded, transaction counter) of every other
\* instrument's book unchanged, and every maker it trades with rested, before
\* the command, in the book of the command's own instrument at the price and
\* on the side opposite to the taker.
C24_BooksStep ==
    LET c == last'.cmd
    IN /\ \A j \in TwoInstruments \ {c.instrument_id} :
              /\ j \in DOMAIN manager <=> j \in DOMAIN manager'
              /\ j \in DOMAIN manager => manager'[j] = manager[j]
       /\ \A k \in DOMAIN last'.match.transactions :
              \E r \in Resting(BookOf(manager, c.instrument_id)) :
                  /\ r[1] = Opposite(c.side)
                  /\ r[2] = last'.match.transactions[k].price
                  /\ r[3] = last'.match.transactions[k].maker_order_id

C24_BooksIndependent == [][C24_BooksStep]_vars

\* C24 witness: an order traded in one book while the other book holds an
\* order of the maker's id on the maker's side at the traded price.
C24_Witness ==
    /\ last.match.transactions # <<>>
    /\ \E j \in DOMAIN manager \ {last.cmd.instrument_id} :
           \E r \in Resting(manager[j]) :
               /\ r[1] = Opposite(last.cmd.side)
               /\ r[2] = last.match.transactions[1].price
               /\ r[3] = last.match.transactions[1].maker_order_id
               /\ r[4] = last.match.transactions[1].quantity

\* C25: the trade listener is called exactly once for a match_order call
\* (made through match_limit_order or submit_market_order) that produced at
\* least one transaction, with a TradeResult whose match_result holds exactly
\* the transactions of the call, and it is not called when the call produced
\* no transaction or returned an error, nor by a command that made no call.
C25_TradeListenerOnce ==
    IF last.match.ok /\ last.match.transactions # <<>>
    THEN /\ Len(last.trades) = 1
         /\ last.trades[1].match_result = last.match
         /\ last.trades[1].match_result.transactions = last.match.transactions
    ELSE last.trades = <<>>

\* C25 witness: one call produced two transactions and the listener was
\* called once, with both.
C25_Witness ==
    /\ Len(last.match.transactions) = 2
    /\ Len(last.trades) = 1
    /\ Len(last.trades[1].match_result.transactions) = 2

\* The aggregate visible quantity of a book at (side, price).
VisibleAt(book, side, price) ==
    IF price \in DOMAIN SideMap(book, side)
    THEN visible_quantity(SideMap(book, side)[price])
    ELSE 0

\* The events of a sequence that are about (side, price).
EventsAt(events, side, price) ==
    SelectSeq(events, LAMBDA e : e.side = side /\ e.price = price)

\* C26: an order command that changes the aggregate visible quantity at
\* (side, price) hands the price-level listener an event for (side, price),
\* the last of which carries the level's visible quantity after the command
\* (0 when the level is gone); every level traded in a match has an event
\* whose side is opposite to the taker's and whose quantity is what the match
\* left visible at the level.
C26_EventStep ==
    LET c == last'.cmd
        pre == BookOf(manager, c.instrument_id)
        post == BookOf(manager', c.instrument_id)
    IN c.type \in {"OrderCreate", "OrderDelete", "OrderModify"} =>
        /\ \A sp \in Sides \X Prices :
               VisibleAt(pre, sp[1], sp[2]) # VisibleAt(post, sp[1], sp[2]) =>
                   /\ EventsAt(last'.events, sp[1], sp[2]) # <<>>
                   /\ EventsAt(last'.events, sp[1], sp[2])
                          [Len(EventsAt(last'.events, sp[1], sp[2]))].quantity
                      = VisibleAt(post, sp[1], sp[2])
        /\ \A k \in DOMAIN last'.match.transactions :
               \E j \in DOMAIN last'.events :
                   /\ last'.events[j].side = Opposite(c.side)
                   /\ last'.events[j].price = last'.match.transactions[k].price
                   /\ last'.events[j].quantity
                      = VisibleAt(post, Opposite(c.side), last'.match.transactions[k].price)

C26_LevelChangedEvents == [][C26_EventStep]_vars

\* C26 witness: a match traded at two levels and the listener got an event
\* for each, on the side opposite to the taker, one of a level that keeps
\* visible quantity.
C26_Witness ==
    /\ last.match.transactions # <<>>
    /\ \E j, k \in DOMAIN last.events :
           /\ last.events[j].side = Opposite(last.cmd.side)
           /\ last.events[k].side = Opposite(last.cmd.side)
           /\ last.events[j].price # last.events[k].price
           /\ last.events[k].quantity > 0

\* C27: for every pair of u64 prices, also one whose sum exceeds the u64
\* range, midpoint returns floor((min_price + max_price) / 2) and width
\* returns max_price - min_price, 0 when max_price < min_price.
C27_MidpointWidthExact ==
    /\ bin_out.fn = "midpoint" =>
           /\ ~bin_out.panicked
           /\ bin_out.value = (bin.min_price + bin.max_price) \div 2
    /\ bin_out.fn = "width" =>
           /\ ~bin_out.panicked
           /\ bin_out.value = IF bin.max_price < bin.min_price THEN 0
                              ELSE bin.max_price - bin.min_price

\* The queue of a book at (side, price), empty when the level does not exist.
LevelAt(book, side, price) ==
    IF price \in DOMAIN SideMap(book, side) THEN SideMap(book, side)[price] ELSE <<>>

\* C28: a successful cancel_order(id) removes exactly that order: its level
\* loses the one order of that id and keeps the others with their quantities
\* in their order, the level is removed from its side exactly when no order is
\* left in it, every other level is unchanged, order_locations loses the id
\* and nothing else, and the trade fields are unchanged.
C28_CancelStep ==
    LET c == last'.cmd
        pre == manager[c.instrument_id]
        post == manager'[c.instrument_id]
        price == pre.order_locations[c.order_id][1]
        side == pre.order_locations[c.order_id][2]
    IN (c.type = "OrderDelete" /\ last'.op = "ok") =>
        /\ c.order_id \in DOMAIN pre.order_locations
        /\ Len(LevelAt(pre, side, price)) = Len(OthersOf(pre, side, price, c.order_id)) + 1
        /\ LevelAt(post, side, price) = OthersOf(pre, side, price, c.order_id)
        /\ price \in DOMAIN SideMap(post, side) <=> OthersOf(pre, side, price, c.order_id) # <<>>
        /\ \A sp \in (Sides \X Prices) \ {<<side, price>>} :
               /\ sp[2] \in DOMAIN SideMap(post, sp[1]) <=> sp[2] \in DOMAIN SideMap(pre, sp[1])
               /\ LevelAt(post, sp[1], sp[2]) = LevelAt(pre, sp[1], sp[2])
        /\ post.order_locations = MapRemove(pre.order_locations, c.order_id)
        /\ post.last_trade_price = pre.last_trade_price
        /\ post.has_traded = pre.has_traded
        /\ post.transaction_id_generator = pre.transaction_id_generator

C28_CancelRemovesExactlyOne == [][C28_CancelStep]_vars

\* C28 witness: an order was cancelled out of a level in which two orders
\* are left.
C28_Witness ==
    /\ last.cmd.type = "OrderDelete"
    /\ last.op = "ok"
    /\ Len(last.events) = 1
    /\ Len(LevelAt(manager[last.cmd.instrument_id], last.events[1].side, last.events[1].price)) = 2

\* C29: OrderCancel, OrderModify and InstrumentDelete for an instrument that
\* has no book are no-ops: no book is created and every book is as it was;
\* the order commands call no book operation and notify no listener.
C29_NoBookStep ==
    LET c == last'.cmd
    IN (/\ c.type \in {"OrderDelete", "OrderModify", "InstrumentDelete"}
        /\ c.instrument_id \notin DOMAIN manager) =>
           /\ manager' = manager
           /\ c.type # "InstrumentDelete" =>
                  /\ last'.op = "NoBook"
                  /\ last'.match.err = "NotCalled"
                  /\ last'.events = <<>>
                  /\ last'.trades = <<>>

C29_NoBookNoOp == [][C29_NoBookStep]_vars

\* C29 witness: an OrderModify found no book for its instrument; the
\* instrument still has none and the other instrument's book holds an order.
C29_Witness ==
    /\ last.cmd.type = "OrderModify"
    /\ last.op = "NoBook"
    /\ last.cmd.instrument_id \notin DOMAIN manager
    /\ \E j \in DOMAIN manager : Resting(manager[j]) # {}

\* C30: after a match_order call that produced transactions has_traded is
\* true and last_trade_price is the price of the call's last transaction,
\* which no transaction of the call is worse than for the taker; a call
\* without transactions, and an OrderCreate without a call, leave both as
\* they were.
C30_TradePriceStep ==
    LET c == last'.cmd
        t == last'.match.transactions
        pre == BookOf(manager, c.instrument_id)
        post == manager'[c.instrument_id]
    IN IsCreate(c) =>
        IF t # <<>>
        THEN /\ post.has_traded
             /\ post.last_trade_price = t[Len(t)].price
             /\ \A k \in DOMAIN t : ~Better(c.side, t[Len(t)].price, t[k].price)
        ELSE /\ post.has_traded = pre.has_traded
             /\ post.last_trade_price = pre.last_trade_price

C30_LastTradePrice == [][C30_TradePriceStep]_vars

\* C30 witness: a call traded at two prices and the book's last trade price
\* is the second, the worse one for the taker.
C30_Witness ==
    /\ Len(last.match.transactions) = 2
    /\ Better(last.cmd.side, last.match.transactions[1].price, last.match.transactions[2].price)
    /\ manager[last.cmd.instrument_id].has_traded
    /\ manager[last.cmd.instrument_id].last_trade_price = last.match.transactions[2].price

\* C31: in every MatchResult match_order returns successfully is_complete is
\* true exactly when remaining_quantity is 0, on every return path.
C31_CompleteIffNothingRemains ==
    (last.cmd.type = "match_order" /\ last.match.ok) =>
        (last.match.is_complete <=> last.match.remaining_quantity = 0)

\* The prices of the side opposite to a taker that are within its limit.
WithinLimit(book, side, limit) ==
    {p \in DOMAIN SideMap(book, Opposite(side)) :
        \/ limit = None
        \/ side = "Buy" /\ p <= limit
        \/ side = "Sell" /\ p >= limit}

\* The total quantity of the levels of a side at the prices ps.
RECURSIVE TotalOver(_, _, _)
TotalOver(book, side, ps) ==
    IF ps = {} THEN 0
    ELSE LET p == CHOOSE x \in ps : TRUE
         IN total_quantity(SideMap(book, side)[p]) + TotalOver(book, side, ps \ {p})

\* C32: peek_match(side, qty, price_limit) changes nothing (every book as it
\* was, no listener called) and returns the smaller of qty and the sum of
\* total_quantity over the opposite side's levels whose price is within
\* price_limit; it returns 0 when the opposite side is empty.
C32_PeekStep ==
    LET c == last'.cmd
        available == TotalOver(manager["X"], Opposite(c.side),
                               WithinLimit(manager["X"], c.side, c.price))
    IN c.type = "peek_match" =>
        /\ manager' = manager
        /\ last'.events = <<>>
        /\ last'.trades = <<>>
        /\ last'.peek = IF c.quantity <= available THEN c.quantity ELSE available
        /\ DOMAIN SideMap(manager["X"], Opposite(c.side)) = {} => last'.peek = 0

C32_PeekReadOnly == [][C32_PeekStep]_vars

\* C32 witness: a peek with a limit price returned less than it asked for,
\* while the opposite side holds a level beyond the limit.
C32_Witness ==
    /\ last.cmd.type = "peek_match"
    /\ last.cmd.price # None
    /\ last.peek > 0
    /\ last.peek < last.cmd.quantity
    /\ WithinLimit(manager["X"], last.cmd.side, last.cmd.price)
           # DOMAIN SideMap(manager["X"], Opposite(last.cmd.side))

\* C36: peek_match agrees with match_order: on any book and for any (side,
\* qty, limit) the value peek_match returns is qty minus the
\* remaining_quantity of the MatchResult match_order returns on that book,
\* also when the book holds orders with hidden quantity.
C36_PeekAgreesWithMatch ==
    LET c == last.cmd
        m == match_order(manager["X"], 1, c.side, c.quantity, c.price)
    IN (c.type = "peek_match" /\ m.result.ok) =>
           last.peek = c.quantity - m.result.remaining_quantity

\* The resting orders of a book that carry this id.
OrdersOf(book, id) ==
    {SideMap(book, pl[1])[pl[2]][pl[3]] : pl \in Places(book, id)}

\* C33: an order whose time in force is expired (against the clock, and
\* against the market close only when the book has one) is never the maker
\* of a transaction, and add_limit_order rejects an order that is already
\* expired on entry, leaving the book as it was.
C33_ExpiryStep ==
    LET c == last'.cmd
        pre == manager["X"]
        post == manager'["X"]
        t == last'.match.transactions
    IN ncmds' = ncmds + 1 =>
        /\ c.type = "match_order" =>
               \A k \in DOMAIN t : \A o \in OrdersOf(pre, t[k].maker_order_id) :
                   ~has_expired(pre, o, now)
        /\ (c.type = "add_limit_order"
               /\ is_expired(c.time_in_force, now, market_close_of(pre))) =>
               (last'.op # "ok" /\ post = pre)

C33_ExpiredNeverMaker == [][C33_ExpiryStep]_vars

\* C34: listeners are pure observers. The book whose listeners are registered
\* and the book whose listeners are not, given the same commands, hold the
\* same bids, asks, locations and atomics, and the handlers returned the same
\* MatchResult (its transactions in the same order) and the same outcome.
C34_ListenersObserve ==
    /\ with_listeners(manager["X"], FALSE, FALSE) = with_listeners(manager["Y"], FALSE, FALSE)
    /\ last.x.match = last.y.match
    /\ last.x.op = last.y.op

\* C34 witness: a command traded; the listeners of X received the trade and a
\* level change, the book Y has no listener and none was called.
C34_Witness ==
    /\ ~manager["Y"].trade_listener
    /\ ~manager["Y"].price_level_changed_listener
    /\ last.x.match.transactions # <<>>
    /\ last.x.trades # <<>>
    /\ last.x.events # <<>>
    /\ last.y.trades = <<>>
    /\ last.y.events = <<>>
    /\ manager["X"].has_traded

\* C35: an OrderCreate(Limit) whose order id is already live in its book is
\* rejected as a whole: it produces no transaction and leaves bids, asks and
\* order_locations as they were, also when its price is aggressive; and no
\* transaction has a maker id equal to its taker id.
C35_DuplicateStep ==
    LET c == last'.cmd
        t == last'.match.transactions
        pre == BookOf(manager, c.instrument_id)
        post == manager'[c.instrument_id]
    IN IsCreate(c) =>
        /\ (c.order_type = "LIMIT" /\ c.order_id \in DOMAIN pre.order_locations) =>
               /\ t = <<>>
               /\ post.bids = pre.bids
               /\ post.asks = pre.asks
               /\ post.order_locations = pre.order_locations
        /\ \A k \in DOMAIN t : t[k].maker_order_id # t[k].taker_order_id

C35_DuplicateRejectedWhole == [][C35_DuplicateStep]_vars

\* C38: after every command every resting order has a strictly positive
\* remaining quantity, whatever the command was (an OrderCreate or an
\* OrderModify with quantity 0 included), and no order that match_order
\* reported as filled is still in a level or in order_locations.
C38_RestingPositive ==
    \A i \in DOMAIN manager :
        /\ \A r \in Resting(manager[i]) : r[4] > 0
        /\ (last.cmd.instrument_id = i /\ last.op \in {"none", "NoBook"}) =>
               \A k \in DOMAIN last.match.filled_order_ids :
                   /\ last.match.filled_order_ids[k] \notin DOMAIN manager[i].order_locations
                   /\ Places(manager[i], last.match.filled_order_ids[k]) = {}

\* C37: once match_order has returned, best_bid() and best_ask() return the
\* true best prices of the book (the highest bid key, the lowest ask key, or
\* none), also when a reader called them and refilled the cache while the
\* match was between its invalidation and its removal of the emptied levels.
C37_CacheCoherent ==
    call.pc = "idle" =>
        /\ cached_best_bid(cache, manager["X"]) = best_bid(manager["X"])
        /\ cached_best_ask(cache, manager["X"]) = best_ask(manager["X"])
====
